---- MODULE Spec2Model ----
(***************************************************************************)
(* Verification model of the multi-resolution occupancy core of           *)
(* supereight2: the per-block mip-map stacks with their scale-switch       *)
(* buffer (BlockMultiRes<Occupancy>), the per-block integration of the     *)
(* occupancy updater (updateBlock / freeBlock) and the bottom-up           *)
(* propagation with pruning (propagateToRoot).                             *)
(***************************************************************************)
EXTENDS Integers, Sequences, FiniteSets, TLC

(***************************************************************************)
(* Bounds of the model                                                     *)
(***************************************************************************)
\* Frames are integrated into a block while its integration counters stay
\* at or below this value (the counters are unbounded size_t in the code).
MaxIntegr == 21

\* The configured free-space integration scale is one of 0..MaxFsIntegrScale.
MaxFsIntegrScale == 0

\* An octree node has NumChildren children (8 in the code) and the blocks
\* are the octants at depth BlockDepth (octree_.getBlockDepth()).
NumChildren == 2
BlockDepth == 3

\* The volume carver allocates children while the octree holds at most
\* MaxOctants octants, and at most MaxFrames frames are integrated.
MaxOctants == 7
MaxFrames == 2

\* The allocation lists of a frame name at most MaxList nodes and at most
\* MaxList blocks.
MaxList == 2
NumVox == 3
MaxWeight == 2
MaxVoxelFrames == 2
NumWorkers == 2

\* The octree in three dimensions has its blocks GatherDepth below the root.
GatherDepth == 2

(***************************************************************************)
(* Program constants                                                       *)
(***************************************************************************)
\* Octree<DataT, ResT, BlockSize = 8>: the edge length of a block in voxels
BlockSize == 8

\* buffer_integr_count_ >= 20 in switchData()
SwitchIntegrCount == 20

RECURSIVE log2_const(_)
\* math::log2_const, used for BlockMultiRes::max_scale
log2_const(n) == IF n <= 1 THEN 0 ELSE 1 + log2_const(n \div 2)

\* static constexpr int max_scale = math::log2_const(BlockSize)
max_scale == log2_const(BlockSize)

\* math::cu
cu(x) == x * x * x

\* 1 << s and x >> s for s >= 0
Shl1(s) == 2 ^ s
Shr(x, s) == x \div (2 ^ s)

\* const int num_voxels_at_scale = math::cu(BlockSize >> scale)
NumVoxels(scale) == cu(Shr(BlockSize, scale))

Min2(a, b) == IF a < b THEN a ELSE b
Max2(a, b) == IF a > b THEN a ELSE b

\* The element of a one-element set.  The({e(x) : x \in {v}}) is e with x
\* bound to the value of v: the way a statement sequence names the object
\* it has modified so far.
The(S) == CHOOSE x \in S : TRUE

(***************************************************************************)
(* The heap of voxel arrays.  An array is named by a positive identifier, *)
(* nullptr is 0.  live is the set of arrays that are allocated and not    *)
(* yet released; fault collects the memory errors that have happened.     *)
(***************************************************************************)
Null == 0

Pointers(b) ==
    {b.data_[i] : i \in 1..Len(b.data_)}
        \cup {b.min_data_[i] : i \in 1..Len(b.min_data_)}
        \cup {b.max_data_[i] : i \in 1..Len(b.max_data_)}
        \cup {b.buffer_data_}

\* new DataType[n]: an identifier that is neither live nor still held by a
\* (possibly dangling) pointer of the block.
NewArray(b) ==
    The({CHOOSE i \in 1..(Cardinality(used) + 1) : i \notin used :
             used \in {b.live \cup Pointers(b) \cup {Null}}})

Alloc(b, p) == [b EXCEPT !.live = @ \cup {p}]

\* delete[] p
Delete(blk, ptr) ==
    The({IF p = Null THEN b
         ELSE IF p \notin b.live THEN [b EXCEPT !.fault = @ \cup {"double_free"}]
         ELSE [b EXCEPT !.live = @ \ {p}] : b \in {blk}, p \in {ptr}})

\* p[idx]: reading or writing a voxel of the array p points to
Access(blk, ptr) ==
    The({IF p = Null THEN [b EXCEPT !.fault = @ \cup {"null_deref"}]
         ELSE IF p \notin b.live THEN [b EXCEPT !.fault = @ \cup {"use_after_free"}]
         ELSE b : b \in {blk}, p \in {ptr}})

\* v[i] of a std::vector with 0-based index i
InRange(v, i) == i >= 0 /\ i < Len(v)
At(v, i) == v[i + 1]
PopBack(v) == SubSeq(v, 1, Len(v) - 1)
Back(v) == IF Len(v) = 0 THEN Null ELSE v[Len(v)]
OutOfBounds(b) == [b EXCEPT !.fault = @ \cup {"out_of_bounds"}]

(***************************************************************************)
(* BlockMultiRes<Data<Field::Occupancy, ...>>.  A block is a record with  *)
(* the fields of the class (the vectors hold array identifiers), the      *)
(* observed flag and weight of init_data, and the heap.                   *)
(***************************************************************************)

\* BlockMultiRes(init_data): one voxel at the coarsest scale, shared by the
\* three stacks.  The four counters have no initialiser: cic, coc, bic, boc
\* are the values they happen to hold.
BlockMultiRes(init, cic, coc, bic, boc) ==
    [min_scale |-> -1,
     current_scale |-> max_scale,
     data_ |-> <<1>>,
     min_data_ |-> <<1>>,
     max_data_ |-> <<1>>,
     buffer_data_ |-> Null,
     buffer_scale_ |-> -1,
     curr_integr_count_ |-> cic,
     curr_observed_count_ |-> coc,
     buffer_integr_count_ |-> bic,
     buffer_observed_count_ |-> boc,
     init_data |-> init,
     live |-> {1},
     fault |-> {}]

\* data_.push_back(new DataType[n])
PushNewData(blk) ==
    The({[Alloc(b, p) EXCEPT !.data_ = Append(@, p)] : b \in {blk}, p \in {NewArray(blk)}})

\* min_data_.push_back(data_at_scale); max_data_.push_back(data_at_scale)
PushMinMaxShared(blk) ==
    The({[b EXCEPT !.min_data_ = Append(@, Back(b.data_)),
                   !.max_data_ = Append(@, Back(b.data_))] : b \in {blk}})

\* min_data_.push_back(new DataType[n])
PushNewMin(blk) ==
    The({[Alloc(b, p) EXCEPT !.min_data_ = Append(@, p)] : b \in {blk}, p \in {NewArray(blk)}})

\* max_data_.push_back(new DataType[n])
PushNewMax(blk) ==
    The({[Alloc(b, p) EXCEPT !.max_data_ = Append(@, p)] : b \in {blk}, p \in {NewArray(blk)}})

RECURSIVE AllocateLoop(_, _, _, _)
\* the for loop of allocateDownTo, from scale down to new_min_scale: the
\* mean data is already there at the current scale and new below it; the
\* min/max data is the mean data at the new minimum scale and own arrays at
\* the intermediate scales
AllocateLoop(blk, scale, from_scale, new_min_scale) ==
    IF scale < new_min_scale THEN blk
    ELSE AllocateLoop(
             The({IF scale = new_min_scale
                  THEN PushMinMaxShared(b1)
                  ELSE PushNewMax(PushNewMin(b1)) :
                      b1 \in {IF scale = from_scale THEN blk ELSE PushNewData(blk)}}),
             scale - 1, from_scale, new_min_scale)

\* BlockMultiRes::allocateDownTo(new_min_scale)
allocateDownTo(blk, new_min_scale) ==
    The({IF new_min_scale >= b.current_scale THEN b
         ELSE [AllocateLoop([b EXCEPT !.min_data_ = PopBack(@), !.max_data_ = PopBack(@)],
                            b.current_scale, b.current_scale, new_min_scale)
                   EXCEPT !.current_scale = new_min_scale, !.min_scale = new_min_scale] :
             b \in {blk}})

\* one iteration of the for loop of deleteUpTo: the min/max data at the
\* minimum scale is the mean data and is released once, through data_
DeleteStep(blk, scale, old_min_scale) ==
    The({[(IF scale > old_min_scale
           THEN Delete(Delete(b1, Back(b1.min_data_)), Back(b1.max_data_))
           ELSE b1)
              EXCEPT !.min_data_ = PopBack(@), !.max_data_ = PopBack(@)] :
             b1 \in {[Delete(blk, Back(blk.data_)) EXCEPT !.data_ = PopBack(@)]}})

RECURSIVE DeleteLoop(_, _, _, _)
\* the for loop of deleteUpTo, from scale up to new_min_scale - 1
DeleteLoop(blk, scale, old_min_scale, new_min_scale) ==
    The({IF scale >= new_min_scale THEN b
         ELSE IF Len(b.data_) = 0 \/ Len(b.min_data_) = 0 \/ Len(b.max_data_) = 0
         THEN OutOfBounds(b)
         ELSE DeleteLoop(DeleteStep(b, scale, old_min_scale),
                         scale + 1, old_min_scale, new_min_scale) : b \in {blk}})

\* the statements of deleteUpTo after the loop
DeleteTail(blk, new_min_scale) ==
    The({[b2 EXCEPT !.min_data_ = Append(PopBack(@), Back(b2.data_)),
                    !.max_data_ = Append(PopBack(@), Back(b2.data_)),
                    !.current_scale = new_min_scale,
                    !.min_scale = new_min_scale] :
             b2 \in {Delete(Delete(blk, Back(blk.min_data_)), Back(blk.max_data_))}})

\* BlockMultiRes::deleteUpTo(new_min_scale)
deleteUpTo(blk, new_min_scale) ==
    IF new_min_scale <= blk.min_scale \/ blk.min_scale = -1 THEN blk
    ELSE The({IF Len(b1.data_) = 0 \/ Len(b1.min_data_) = 0 \/ Len(b1.max_data_) = 0
              THEN OutOfBounds(b1)
              ELSE DeleteTail(b1, new_min_scale) :
                  b1 \in {DeleteLoop(blk, blk.min_scale, blk.min_scale, new_min_scale)}})

\* BlockMultiRes::initCurrCount()
initCurrCount(blk) ==
    The({IF b.init_data.observed
         THEN [b EXCEPT !.curr_integr_count_ = b.init_data.weight,
                        !.curr_observed_count_ = NumVoxels(b.current_scale)]
         ELSE [b EXCEPT !.curr_integr_count_ = 0, !.curr_observed_count_ = 0] :
             b \in {blk}})

\* BlockMultiRes::resetBufferCount()
resetBufferCount(b) ==
    [b EXCEPT !.buffer_integr_count_ = 0, !.buffer_observed_count_ = 0]

\* BlockMultiRes::resetBuffer()
resetBuffer(blk) ==
    The({resetBufferCount(
             [(IF b.buffer_scale_ < b.current_scale THEN Delete(b, b.buffer_data_) ELSE b)
                  EXCEPT !.buffer_data_ = Null, !.buffer_scale_ = -1]) : b \in {blk}})

\* BlockMultiRes::initBuffer(buffer_scale)
initBuffer(blk, buffer_scale) ==
    The({IF buffer_scale < b1.current_scale
         THEN [Alloc(b1, NewArray(b1)) EXCEPT !.buffer_data_ = NewArray(b1)]
         ELSE IF InRange(b1.data_, max_scale - buffer_scale)
         THEN [b1 EXCEPT !.buffer_data_ = At(b1.data_, max_scale - buffer_scale)]
         ELSE OutOfBounds(b1) :
             b1 \in {[resetBuffer(blk) EXCEPT !.buffer_scale_ = buffer_scale]}})

\* buffer_observed_count_ * cu(1 << buffer_scale_)
\*     >= 0.9 * curr_observed_count_ * cu(1 << current_scale)
\* (the double product is exact for the counts a block can hold, so the
\* comparison is the one of the integers scaled by 10)
CoverageReached(b) ==
    /\ b.buffer_scale_ >= 0
    /\ 10 * b.buffer_observed_count_ * cu(Shl1(b.buffer_scale_))
           >= 9 * b.curr_observed_count_ * cu(Shl1(b.current_scale))

\* a faulty switch condition that ignores the coverage of the buffer
SwitchOnCountOnly(b) == b.buffer_integr_count_ >= SwitchIntegrCount

\* the condition of the if statement of switchData()
SwitchCondition(b) ==
    b.buffer_integr_count_ >= SwitchIntegrCount /\ CoverageReached(b)

\* min_data_[idx] = new DataType[n]; max_data_[idx] = new DataType[n]
NewMinMaxAt(blk, idx) ==
    The({The({[Alloc(bm, m2) EXCEPT !.max_data_[idx + 1] = m2] :
                  bm \in {[Alloc(b, m1) EXCEPT !.min_data_[idx + 1] = m1]},
                  m2 \in {NewArray(Alloc(b, m1))}}) :
             b \in {blk}, m1 \in {NewArray(blk)}})

\* the "switch to finer scale" branch of switchData()
SwitchFiner(blk) ==
    The({IF ~InRange(b1.min_data_, max_scale - (b1.buffer_scale_ + 1))
         THEN OutOfBounds(b1)
         ELSE [NewMinMaxAt(b1, max_scale - (b1.buffer_scale_ + 1))
                   EXCEPT !.current_scale = b1.buffer_scale_,
                          !.min_scale = b1.buffer_scale_] :
             b1 \in {[blk EXCEPT !.data_ = Append(@, blk.buffer_data_),
                                 !.min_data_ = Append(@, blk.buffer_data_),
                                 !.max_data_ = Append(@, blk.buffer_data_)]}})

\* the statements of switchData() after the stacks have been switched;
\* missed is the number of buffer voxels found with weight > 0 and the
\* observed flag unset
SwitchCounts(blk, missed) ==
    The({resetBufferCount(
             [b EXCEPT !.curr_integr_count_ = b.buffer_integr_count_,
                       !.curr_observed_count_ = b.buffer_observed_count_ + missed,
                       !.buffer_data_ = Null,
                       !.buffer_scale_ = -1]) :
             b \in {Access(blk, blk.buffer_data_)}})

\* a faulty switchData() that drops the buffer when it does not switch
switchDataDroppingBuffer(blk, missed) ==
    The({IF SwitchCondition(b)
         THEN [blk |-> SwitchCounts(IF b.buffer_scale_ < b.current_scale
                                    THEN SwitchFiner(b)
                                    ELSE deleteUpTo(b, b.buffer_scale_), missed),
               ret |-> TRUE]
         ELSE [blk |-> resetBufferCount(b), ret |-> FALSE] : b \in {blk}})

\* BlockMultiRes::switchData().  The result is the block after the call and
\* the value returned.
switchData(blk, missed) ==
    The({IF SwitchCondition(b)
         THEN [blk |-> SwitchCounts(IF b.buffer_scale_ < b.current_scale
                                    THEN SwitchFiner(b)
                                    ELSE deleteUpTo(b, b.buffer_scale_), missed),
               ret |-> TRUE]
         ELSE [blk |-> b, ret |-> FALSE] : b \in {blk}})

RECURSIVE DeleteAll(_, _)
\* for (DataType* p : v) delete[] p;
DeleteAll(blk, v) ==
    IF Len(v) = 0 THEN blk
    ELSE The({DeleteAll(b, Tail(v)) : b \in {Delete(blk, Head(v))}})

\* BlockMultiRes::~BlockMultiRes(); an array still live afterwards is leaked
Destructor(blk) ==
    The({IF b4.live = {} THEN b4 ELSE [b4 EXCEPT !.fault = @ \cup {"leak"}] :
             b4 \in {The({IF b3.buffer_data_ # Null /\ b3.buffer_scale_ < b3.min_scale
                          THEN Delete(b3, b3.buffer_data_)
                          ELSE b3 :
                              b3 \in {DeleteAll(DeleteAll(DeleteAll(blk, blk.data_),
                                                          PopBack(blk.min_data_)),
                                                PopBack(blk.max_data_))}})}})

(***************************************************************************)
(* Updater<Map<Occupancy, Res::Multi>>: the integration of one frame into *)
(* one block.                                                              *)
(***************************************************************************)

\* how many of the voxels a frame writes were unobserved before: what
\* updater::free_voxel / updater::update_voxel return depends on the depth
\* image and on the voxel data, which are inputs here
Cover == {"none", "all"}
Newly(cover, room) == IF room <= 0 \/ cover = "none" THEN 0 ELSE room

\* const int last_scale = (min_scale == -1) ? 0 : current_scale
LastScale(b) == IF b.min_scale = -1 THEN 0 ELSE b.current_scale

\* min_integration_scale of updateBlock (freeBlock: low_variance = true);
\* max_occ_low is getMaxData().field.occupancy < 0.95 * log_odd_min
MinIntegrationScale(b, low_variance, max_occ_low, fs) ==
    IF low_variance /\ (b.min_scale = -1 \/ max_occ_low)
    THEN fs
    ELSE Max2(0, LastScale(b) - 1)

\* max_integration_scale of updateBlock / freeBlock
MaxIntegrationScale(b) ==
    IF b.min_scale = -1 THEN max_scale ELSE Min2(max_scale, LastScale(b) + 1)

\* recommended_scale of updateBlock / freeBlock; computed is what
\* computeIntegrationScale returned
RecommendedScale(b, low_variance, computed, max_occ_low, fs) ==
    Min2(Max2(MinIntegrationScale(b, low_variance, max_occ_low, fs), computed),
         MaxIntegrationScale(b))

\* block_ptr->setCurrentScale(scale)
setCurrentScale(b, scale) == [b EXCEPT !.current_scale = scale]

\* block_ptr->setInitData(DataType())
setInitData(b) == [b EXCEPT !.init_data = [observed |-> FALSE, weight |-> 0]]

\* currData(idx): the mean data at the current scale
currData(blk) ==
    The({IF InRange(b.data_, max_scale - b.current_scale)
         THEN Access(b, At(b.data_, max_scale - b.current_scale))
         ELSE OutOfBounds(b) : b \in {blk}})

\* bufferData(idx)
bufferData(blk) == The({Access(b, b.buffer_data_) : b \in {blk}})

\* a faulty incrBufferIntegrCount that counts every frame twice
incrBufferIntegrCountTwice(blk, do_increment) ==
    [blk EXCEPT !.buffer_integr_count_ = @ + 2]

\* BlockMultiRes::incrBufferIntegrCount(do_increment)
incrBufferIntegrCount(blk, do_increment) ==
    The({IF do_increment \/ CoverageReached(b)
         THEN [b EXCEPT !.buffer_integr_count_ = @ + 1]
         ELSE b : b \in {blk}})

\* the loop that initialises a finer buffer from the parent voxels at the
\* current scale
InitBufferFromParent(blk, recommended_scale, last_scale) ==
    IF recommended_scale < last_scale THEN bufferData(currData(blk)) ELSE blk

\* updateBlockData<true>, and the buffer loop of freeBlock
UpdateBufferData(blk, cover, do_increment) ==
    incrBufferIntegrCount(
        The({[b EXCEPT !.buffer_observed_count_ =
                  @ + Newly(cover, NumVoxels(b.buffer_scale_) - @)] :
                 b \in {bufferData(blk)}}),
        do_increment)

\* a faulty update of the current data that does not count the frame
UpdateCurrDataUncounted(blk, cover) ==
    The({[b EXCEPT !.curr_observed_count_ =
              @ + Newly(cover, NumVoxels(b.current_scale) - @)] : b \in {currData(blk)}})

\* updateBlockData<false>, and the current-data loop of freeBlock
UpdateCurrData(blk, cover) ==
    The({[b EXCEPT !.curr_observed_count_ =
              @ + Newly(cover, NumVoxels(b.current_scale) - @),
                   !.curr_integr_count_ = @ + 1] : b \in {currData(blk)}})

\* What a call did: the last_scale it saw, whether it took the fresh path,
\* called initBuffer, integrated into the buffer, called switchData (with
\* the block right before and right after that call and the value
\* returned), and integrated into the current data.
Did(b) ==
    [called |-> TRUE, fresh |-> FALSE, last_scale |-> LastScale(b),
     init_called |-> FALSE, buffered |-> FALSE,
     switch_called |-> FALSE, switch_ret |-> FALSE,
     pre_switch |-> b, post_switch |-> b, integrated |-> TRUE]

\* the fresh branch: no data has been integrated into the block before
IntegrateFresh(b, recommended_scale, cover_cur) ==
    [blk |-> UpdateCurrData(
                 setInitData(initCurrCount(
                     setCurrentScale(allocateDownTo(b, recommended_scale),
                                     recommended_scale))),
                 cover_cur),
     did |-> [Did(b) EXCEPT !.fresh = TRUE]]

\* the "potential double integration" branch
IntegrateBuffered(b, recommended_scale, do_increment, cover_buf, cover_cur, missed_all) ==
    The({The({[blk |-> IF sw.ret THEN sw.blk ELSE UpdateCurrData(sw.blk, cover_cur),
               did |-> [Did(b) EXCEPT !.init_called = (recommended_scale # b.buffer_scale_),
                                      !.buffered = TRUE,
                                      !.switch_called = TRUE,
                                      !.switch_ret = sw.ret,
                                      !.pre_switch = b2,
                                      !.post_switch = sw.blk,
                                      !.integrated = ~sw.ret]] :
                  sw \in {switchData(b2, IF missed_all
                                         THEN NumVoxels(b2.buffer_scale_)
                                                  - b2.buffer_observed_count_
                                         ELSE 0)}}) :
             b2 \in {UpdateBufferData(
                         IF recommended_scale # b.buffer_scale_
                         THEN InitBufferFromParent(initBuffer(b, recommended_scale),
                                                   recommended_scale, LastScale(b))
                         ELSE b,
                         cover_buf, do_increment)}})

\* The body of updateBlock / freeBlock once recommended_scale is known: the
\* block after the call and what the call did.
IntegrateBlock(b, recommended_scale, do_increment, cover_buf, cover_cur, missed_all) ==
    IF b.min_scale = -1
    THEN IntegrateFresh(b, recommended_scale, cover_cur)
    ELSE IF recommended_scale # LastScale(b)
    THEN IntegrateBuffered(b, recommended_scale, do_increment,
                           cover_buf, cover_cur, missed_all)
    ELSE [blk |-> UpdateCurrData(resetBuffer(b), cover_cur), did |-> Did(b)]

(***************************************************************************)
(* Octree.  An octant is named by the path of child indices that leads to *)
(* it from the root; a pointer to an octant is its path.  The octree is a *)
(* function from the paths to the octants: whether the octant is          *)
(* allocated, its minimum and maximum data (observed flag and field      *)
(* value, for a leaf node its data) and the timestamp of its last         *)
(* propagation.                                                            *)
(***************************************************************************)
RECURSIVE PathsTo(_)
PathsTo(d) ==
    IF d = 0 THEN {<<>>}
    ELSE The({P \cup {Append(p, i) : p \in {q \in P : Len(q) = d - 1},
                                     i \in 0..(NumChildren - 1)} :
                 P \in {PathsTo(d - 1)}})

Octants == PathsTo(BlockDepth)

\* octree_.getRoot()
Root == <<>>

\* a null octant pointer
NoLeaf == <<-1>>

\* octant_ptr->parent(), node_ptr->getChild(i), octant_ptr->is_block
Parent(n) == SubSeq(n, 1, Len(n) - 1)
Children(n) == IF Len(n) >= BlockDepth THEN {} ELSE {Append(n, i) : i \in 0..(NumChildren - 1)}
IsBlock(n) == Len(n) = BlockDepth

\* the octants below n
Below(n) == {o \in Octants : Len(o) > Len(n) /\ SubSeq(o, 1, Len(n)) = n}

\* MapType::DataType::FieldType::min_occupancy, and the field values that
\* tell the two sides of the pruning threshold 0.95 * min_occupancy apart
min_occupancy == -100
DefaultData == [observed |-> FALSE, field |-> 0]

\* an octant that is not allocated (a null child pointer)
NoOctant ==
    [allocated |-> FALSE, min_data |-> DefaultData, max_data |-> DefaultData,
     timestamp |-> -1]

Allocated(tree) == {o \in Octants : tree[o].allocated}

\* Node::isLeaf(): child_mask == 0
isLeaf(tree, n) == \A c \in Children(n) : ~tree[c].allocated

\* NodeData::data(): the maximum data of an observed leaf, else default data
NodeDataOf(tree, n) ==
    IF tree[n].max_data.observed /\ isLeaf(tree, n) THEN tree[n].max_data ELSE DefaultData

\* an allocation of the first child alone
allocateFirstChild(tree, n, init_data) ==
    [o \in Octants |->
        IF o = Append(n, 0) /\ ~tree[o].allocated
        THEN [allocated |-> TRUE, min_data |-> init_data, max_data |-> init_data,
              timestamp |-> -1]
        ELSE tree[o]]

\* Octree::allocateChildren(parent): all children, constructed with
\* init_data
allocateAllChildren(tree, n, init_data) ==
    [o \in Octants |->
        IF o \in Children(n) /\ ~tree[o].allocated
        THEN [allocated |-> TRUE, min_data |-> init_data, max_data |-> init_data,
              timestamp |-> -1]
        ELSE tree[o]]

\* a faulty deletion that deallocates the node together with its subtree
deleteChildrenAndNode(tree, n) ==
    [o \in Octants |-> IF o \in Below(n) \cup {n} THEN NoOctant ELSE tree[o]]

\* Octree::deleteChildren(parent): recursively delete all the children
deleteChildren(tree, n) ==
    [o \in Octants |-> IF o \in Below(n) THEN NoOctant ELSE tree[o]]

\* updater::propagate_to_parent_node: the maximum data of the node becomes
\* the maximum of the children's and its minimum data the minimum of the
\* children's, observed if every child is; the node is stamped with the
\* timestamp of the frame
MaxField(S) == CHOOSE f \in S : \A g \in S : g <= f
MinField(S) == CHOOSE f \in S : \A g \in S : f <= g
ReduceChildrenMin(tree, n) ==
    IF isLeaf(tree, n) THEN tree[n].min_data
    ELSE [observed |-> \A c \in Children(n) : tree[c].min_data.observed,
          field |-> MinField({tree[c].min_data.field : c \in Children(n)})]
ReduceChildren(tree, n) ==
    IF isLeaf(tree, n) THEN tree[n].max_data
    ELSE [observed |-> \A c \in Children(n) : tree[c].max_data.observed,
          field |-> MaxField({tree[c].max_data.field : c \in Children(n)})]
propagate_to_parent_node(tree, n, timestamp) ==
    [tree EXCEPT ![n].min_data = ReduceChildrenMin(tree, n),
                 ![n].max_data = ReduceChildren(tree, n),
                 ![n].timestamp = timestamp]

(***************************************************************************)
(* Updater::operator(): the node-list pass, the block-list pass and the   *)
(* propagation to the root.  The updater is a record with the octree, the *)
(* worklists node_set_ (one per depth), freed_block_list_, the set        *)
(* updated_octants_ of the caller, a log of the nodes the sweep has       *)
(* reduced, the octants that are allocated once the two passes and the    *)
(* propagation inside the blocks are done, and a log of what the call has *)
(* done in the order it did it.                                            *)
(***************************************************************************)
Updater(tree, updated) ==
    [octree |-> tree,
     node_set |-> [d \in 0..(BlockDepth - 1) |-> {}],
     freed_block_list |-> {},
     updated_octants |-> updated,
     reduced |-> {},
     after_passes |-> Allocated(tree),
     log |-> <<>>]

\* an entry of the log: the operation, the octant it acts on (for an
\* insertion the octant inserted) and for an insertion the index d of
\* node_set_[d]
Event(op, octant, d) == [op |-> op, octant |-> octant, d |-> d]
Logged(upd, op, octant, d) == [upd EXCEPT !.log = Append(@, Event(op, octant, d))]

\* node_set_[d].insert(octant_ptr->parent()): the parent pointer of the root
\* is null, and an index outside the vector is written nowhere in the model
InsertParent(upd, d, octant) ==
    The({[u EXCEPT !.node_set = IF d \in DOMAIN @
                                 THEN [@ EXCEPT ![d] = @ \cup {Parent(octant)}]
                                 ELSE @] :
            u \in {Logged(upd, "insert", IF octant = Root THEN NoLeaf ELSE Parent(octant), d)}})

RECURSIVE freeNodeRecurse(_, _, _, _)
RECURSIVE FreeChildren(_, _, _, _, _)

\* the for loop of freeNodeRecurse over the children of a node that is not
\* a leaf: a block is freed and queued, a node is descended into; a null
\* child, which the assertion excludes, is logged and passed over
FreeChildren(upd, n, depth, child_idx, free_data) ==
    IF child_idx >= NumChildren THEN upd
    ELSE FreeChildren(
             The({IF ~u.octree[c].allocated
                  THEN Logged(u, "null_child", c, depth)
                  ELSE IF IsBlock(c)
                  THEN Logged(
                           InsertParent(
                               Logged([u EXCEPT !.octree[c].min_data = free_data,
                                                !.octree[c].max_data = free_data,
                                                !.freed_block_list = @ \cup {c}],
                                      "freeBlock", c, depth),
                               depth, c),
                           "push_back", c, depth)
                  ELSE freeNodeRecurse(u, c, depth + 1, free_data) :
                      u \in {upd}, c \in {Append(n, child_idx)}}),
             n, depth, child_idx + 1, free_data)

\* Updater::freeNodeRecurse(octant_ptr, depth); free_data is the data the
\* free-space update leaves in a leaf node or at the top of a block
freeNodeRecurse(upd, n, depth, free_data) ==
    IF isLeaf(upd.octree, n)
    THEN InsertParent(Logged([upd EXCEPT !.octree[n].min_data = free_data,
                                         !.octree[n].max_data = free_data],
                             "free_node", n, depth),
                      depth - 1, n)
    ELSE FreeChildren(upd, n, depth, 0, free_data)

RECURSIVE FreeNodes(_, _, _)
\* the loop of operator() over allocation_list.node_list
FreeNodes(upd, node_list, free_data) ==
    IF node_list = {} THEN upd
    ELSE The({FreeNodes(freeNodeRecurse(upd, n, Len(n), free_data),
                        node_list \ {n}, free_data) :
                 n \in {CHOOSE x \in node_list : TRUE}})

\* the loops of operator() over allocation_list.block_list: updateBlock and
\* propagate_block_to_coarsest_scale; block_data is the maximum data the
\* frame leaves at the top of an updated block
UpdateBlocks(upd, block_list, block_data) ==
    [upd EXCEPT !.octree = [o \in Octants |->
                               IF o \in block_list
                               THEN [@[o] EXCEPT !.min_data = block_data,
                                                 !.max_data = block_data]
                               ELSE @[o]]]

RECURSIVE LogEach(_, _, _)
LogEach(upd, op, octants) ==
    IF octants = <<>> THEN upd
    ELSE LogEach(Logged(upd, op, Head(octants), BlockDepth), op, Tail(octants))

RECURSIVE SetToSeq(_)
SetToSeq(S) ==
    IF S = {} THEN <<>>
    ELSE The({<<x>> \o SetToSeq(S \ {x}) : x \in {CHOOSE y \in S : TRUE}})

\* freed_block_list_ in the order of its push_back calls
FreedBlockList(log) ==
    [i \in 1..Len(SelectSeq(log, LAMBDA e : e.op = "push_back")) |->
        SelectSeq(log, LAMBDA e : e.op = "push_back")[i].octant]

\* a propagation that leaves out the blocks of freed_block_list_
PropagateListedBlocks(upd, block_list) ==
    LogEach(upd, "propagate_block_to_coarsest_scale", SetToSeq(block_list))

\* the two loops of operator() that call propagate_block_to_coarsest_scale:
\* over allocation_list.block_list and over freed_block_list_
PropagateBlocks(upd, block_list) ==
    LogEach(LogEach(upd, "propagate_block_to_coarsest_scale", SetToSeq(block_list)),
            "propagate_block_to_coarsest_scale", FreedBlockList(upd.log))

\* updated_octants_ is populated with the blocks of both lists and the leaf
\* nodes of node_list
PopulateUpdated(upd, node_list, block_list) ==
    [upd EXCEPT !.updated_octants =
        @ \cup block_list \cup upd.freed_block_list
          \cup {n \in node_list : isLeaf(upd.octree, n)}]

\* a faulty pruning condition that leaves a node exactly at the threshold
PruneStrictlyBelow(node_data) ==
    node_data.observed /\ 100 * node_data.field < 95 * min_occupancy

\* node_data.field.observed && get_field(node_data) <= 0.95 * min_occupancy
PruneCondition(node_data) ==
    node_data.observed /\ 100 * node_data.field <= 95 * min_occupancy

\* a faulty pruning that leaves the children in updated_octants_
KeepChildren(updated, tree, n) == updated

\* the loop of propagateToRoot that erases the children of the node about
\* to be pruned from updated_octants_
EraseChildren(updated, tree, n) ==
    updated \ {c \in Children(n) : tree[c].allocated}

\* reading no octant at all: the second propagation then runs over the
\* octants the first one has deallocated
NoneDangling(tree, block_list, node_set) == {}

\* the body of the loop of propagateToRoot for one node of node_set_[d]
ProcessNode(upd, n, d, timestamp) ==
    IF upd.octree[n].timestamp = timestamp \/ n = Root THEN Logged(upd, "skip", n, d)
    ELSE The({The({[u2 EXCEPT !.reduced = @ \cup
                        {[node |-> n, data |-> node_data,
                          leaf |-> isLeaf(u2.octree, n)]}] :
                      u2 \in {IF PruneCondition(node_data)
                              THEN Logged([u1 EXCEPT
                                              !.updated_octants = EraseChildren(@, u1.octree, n),
                                              !.octree = deleteChildren(@, n)],
                                          "deleteChildren", n, d)
                              ELSE u1}}) :
                 u1 \in {[InsertParent(
                              Logged([upd EXCEPT
                                         !.octree = propagate_to_parent_node(@, n, timestamp)],
                                     "propagate_to_parent_node", n, d),
                              d - 1, n)
                             EXCEPT !.updated_octants = @ \cup {n}]},
                 node_data \in {ReduceChildren(upd.octree, n)}})

RECURSIVE SweepNodes(_, _, _, _)
\* the loop of propagateToRoot over the nodes of node_set_[d]
SweepNodes(upd, nodes, d, timestamp) ==
    IF nodes = {} THEN upd
    ELSE The({SweepNodes(ProcessNode(upd, n, d, timestamp), nodes \ {n}, d, timestamp) :
                 n \in {CHOOSE x \in nodes : TRUE}})

RECURSIVE SweepDepths(_, _, _)
\* for (int d = octree_.getBlockDepth() - 1; d > 0; d--)
SweepDepths(upd, d, timestamp) ==
    IF d <= 0 THEN upd
    ELSE The({SweepDepths(SweepNodes(u, u.node_set[d], d, timestamp), d - 1, timestamp) :
                 u \in {upd}})

RECURSIVE InsertParents(_, _, _)
\* the first loop of propagateToRoot: the parent of every block of the
\* list is inserted in the worklist of the depth above the blocks
InsertParents(upd, blocks, d) ==
    IF blocks = {} THEN upd
    ELSE The({InsertParents(InsertParent(upd, d, b), blocks \ {b}, d) :
                 b \in {CHOOSE x \in blocks : TRUE}})

\* Updater::propagateToRoot(block_list)
propagateToRoot(upd, block_list, timestamp) ==
    The({Logged([u EXCEPT !.octree = propagate_to_parent_node(@, Root, timestamp)],
                "propagate_to_parent_node", Root, 0) :
             u \in {SweepDepths(InsertParents(upd, block_list, BlockDepth - 1),
                                BlockDepth - 1, timestamp)}})

\* Updater::operator()(allocation_list, updated_octants) of an updater
\* constructed with the timestamp of the frame
UpdaterCall(tree, updated, node_list, block_list, free_data, block_data, timestamp) ==
    The({propagateToRoot(
             [PopulateUpdated(u, node_list, block_list) EXCEPT
                 !.after_passes = Allocated(u.octree)],
             block_list, timestamp) :
             u \in {PropagateBlocks(
                        UpdateBlocks(FreeNodes(Updater(tree, updated), node_list, free_data),
                                     block_list, block_data),
                        block_list)}})

\* the data a frame can leave in a freed leaf node or block, and at the top
\* of an updated block: at the pruning threshold or just above it
FrameData == {[observed |-> TRUE, field |-> -95], [observed |-> TRUE, field |-> -94]}

\* the lists the volume carver can emit: allocated nodes none of which lies
\* under another or is the root, and allocated blocks outside these nodes
NodeLists(tree) ==
    {L \in SUBSET {n \in Allocated(tree) : ~IsBlock(n) /\ n # Root} :
        /\ Cardinality(L) <= MaxList
        /\ \A n \in L : L \cap Below(n) = {}}
BlockLists(tree, node_list) ==
    {L \in SUBSET {b \in Allocated(tree) : IsBlock(b)} :
        /\ Cardinality(L) <= MaxList
        /\ \A n \in node_list : L \cap Below(n) = {}}

(***************************************************************************)
(* State                                                                   *)
(***************************************************************************)
VARIABLES
    block,            \* the BlockMultiRes object
    alive,            \* FALSE once the block has been destroyed
    fs_integr_scale,  \* map_.getDataConfig().field.fs_integr_scale
    call,             \* the last updateBlock / freeBlock call on the block
    streak,           \* consecutive buffered frames with the same recommended scale
    octree_,          \* the octree of the map
    updated_octants,  \* the set the caller passed to the last operator() call
    timestamp_,       \* the timestamp of the last frame (0: no frame yet)
    frame,            \* the last operator() call on the octree
    children_ptr_,    \* the child slots of one node
    child_mask,       \* OctantBase::child_mask of that node
    set_child,        \* the last setChild call on that node
    voxels,           \* one array of voxels of a block and its counters
    par,              \* one operator() call run by the workers of the parallel loops
    visit,            \* a map and the last visitor query on it
    iter,             \* an octree and one iterator over it
    cell,             \* the data of one voxel or leaf node and the last update of it
    gather            \* an octree in three dimensions and one query of its octants

blockvars == <<block, alive, fs_integr_scale, call, streak>>
treevars == <<octree_, updated_octants, timestamp_, frame>>
nodevars == <<children_ptr_, child_mask, set_child>>
vars == <<block, alive, fs_integr_scale, call, streak,
          octree_, updated_octants, timestamp_, frame,
          children_ptr_, child_mask, set_child, voxels, par, visit, iter, cell, gather>>

\* the variables an action on the block, on the octree or on the node leaves
\* alone
notblockvars == <<treevars, nodevars, voxels, par, visit, iter, cell, gather>>
nottreevars == <<blockvars, nodevars, voxels, par, visit, iter, cell, gather>>
notnodevars == <<blockvars, treevars, voxels, par, visit, iter, cell, gather>>
notvoxelvars == <<blockvars, treevars, nodevars, par, visit, iter, cell, gather>>
notparvars == <<blockvars, treevars, nodevars, voxels, visit, iter, cell, gather>>
notvisitvars == <<blockvars, treevars, nodevars, voxels, par, iter, cell, gather>>
notitervars == <<blockvars, treevars, nodevars, voxels, par, visit, cell, gather>>
notcellvars == <<blockvars, treevars, nodevars, voxels, par, visit, iter, gather>>
notgathervars == <<blockvars, treevars, nodevars, voxels, par, visit, iter, cell>>

\* the values an uninitialised size_t counter may hold
UninitValues == {0, 7}

\* the init_data a block is constructed with (the data of its parent)
InitData == {[observed |-> FALSE, weight |-> 0], [observed |-> TRUE, weight |-> 1]}

NoCall(b) ==
    [recommended |-> 0,
     did |-> [called |-> FALSE, fresh |-> FALSE, last_scale |-> 0,
              init_called |-> FALSE, buffered |-> FALSE,
              switch_called |-> FALSE, switch_ret |-> FALSE,
              pre_switch |-> b, post_switch |-> b, integrated |-> FALSE]]

\* the octree after construction: the root only
NewOctree ==
    [o \in Octants |->
        IF o = Root
        THEN [allocated |-> TRUE, min_data |-> DefaultData, max_data |-> DefaultData,
              timestamp |-> -1]
        ELSE NoOctant]

NoFrame ==
    [called |-> FALSE, number |-> 0, reduced |-> {}, inserted |-> {}, deallocated |-> {},
     after_passes |-> {}, block_list |-> {},
     node_set |-> [d \in 0..(BlockDepth - 1) |-> {}],
     again |-> FALSE, fault |-> {}, node_list |-> {}, last_timestamp |-> 0, log |-> <<>>]

InitOctree ==
    /\ octree_ = NewOctree
    /\ updated_octants = {}
    /\ timestamp_ = 0
    /\ frame = NoFrame

(***************************************************************************)
(* One node and its child slots.  Node::Node fills children_ptr_ with      *)
(* nullptr; child_mask is a member of OctantBase, eight bits wide, that a  *)
(* new octant holds cleared.                                               *)
(***************************************************************************)
NumSlots == 8
ChildPointers == {Null, 1}

\* the power of two 1 << child_idx and the test of that bit in a mask
Bit(child_idx) == 2 ^ child_idx
HasBit(mask, child_idx) == (mask \div Bit(child_idx)) % 2 = 1

\* a faulty update of the mask that flips the bit: child_mask ^= 1 << child_idx
ToggleBit(mask, child_idx) ==
    IF HasBit(mask, child_idx) THEN mask - Bit(child_idx)
    ELSE (mask + Bit(child_idx)) % 256

\* child_mask |= 1 << child_idx
SetBit(mask, child_idx) ==
    IF HasBit(mask, child_idx) THEN mask ELSE (mask + Bit(child_idx)) % 256

\* child_mask &= ~(1 << child_idx)
ClearBit(mask, child_idx) ==
    IF HasBit(mask, child_idx) THEN mask - Bit(child_idx) ELSE mask

NoSetChild == [called |-> FALSE, child_idx |-> 0, child_ptr |-> Null, was |-> Null]

InitNode ==
    /\ children_ptr_ = [i \in 0..(NumSlots - 1) |-> Null]
    /\ child_mask = 0
    /\ set_child = NoSetChild

\* Node::setChild(child_idx, child_ptr)
setChild ==
    /\ \E child_idx \in 0..(NumSlots - 1), child_ptr \in ChildPointers :
           /\ child_mask' = IF child_ptr # Null
                             THEN SetBit(child_mask, child_idx)
                             ELSE ClearBit(child_mask, child_idx)
           /\ children_ptr_' = [children_ptr_ EXCEPT ![child_idx] = child_ptr]
           /\ set_child' = [called |-> TRUE, child_idx |-> child_idx,
                            child_ptr |-> child_ptr, was |-> children_ptr_[child_idx]]
    /\ UNCHANGED notnodevars

(***************************************************************************)
(* The voxels of one array of a block, the current data or the buffer,    *)
(* with the counters of that array.  A voxel is its observed flag and its *)
(* weight; initial is the value the observed count was initialised with   *)
(* and became the voxels that went from unobserved to observed since.     *)
(***************************************************************************)
Vox == 0..(NumVox - 1)

\* what the frame holds for a voxel: its projection fails or the depth is
\* below the near plane; the depth is beyond the far plane; the voxel is
\* behind the surface (range_diff >= tau); the voxel is in front of it
Kinds == {"skipped", "far", "behind", "front"}

\* updater::free_voxel and updater::update_voxel write the voxel and
\* return whether it was unobserved; update_voxel leaves a voxel behind
\* the surface alone and returns false
Touched(low_variance, kind) ==
    kind # "skipped" /\ (low_variance \/ kind # "behind")
Updated(data) ==
    [observed |-> TRUE, weight |-> Min2(data.weight + 1, MaxWeight)]

\* whether the loop body of updateBlockData reaches incrCurrObservedCount /
\* incrBufferObservedCount for the voxel: the branch that calls update_voxel
\* leaves the body at depth_value > far_plane
ReachesIncr(low_variance, kind) ==
    kind # "skipped" /\ (low_variance \/ kind # "far")

NewVoxels(data, count) ==
    [data |-> data, observed_count |-> count, integr_count |-> 0,
     initial |-> count, became |-> {}]

\* the array after the loop over its voxels and the increment of the
\* integration count
UpdateVoxels(a, low_variance, kind, counted) ==
    The({[data |-> [v \in Vox |-> IF Touched(low_variance, kind[v])
                                  THEN Updated(a.data[v]) ELSE a.data[v]],
          observed_count |-> a.observed_count
              + Cardinality({v \in newly : ReachesIncr(low_variance, kind[v])}),
          integr_count |-> a.integr_count + (IF counted THEN 1 ELSE 0),
          initial |-> a.initial,
          became |-> a.became \cup newly] :
             newly \in {{v \in Vox : /\ Touched(low_variance, kind[v])
                                      /\ ~a.data[v].observed}}})

\* the voxels of a block constructed from init_data
InitVoxels ==
    \E init \in InitData :
        voxels = NewVoxels([v \in Vox |-> init], IF init.observed THEN NumVox ELSE 0)

\* initBuffer(buffer_scale) and the loop that copies the parent voxels into
\* a finer buffer with observed = false, or resetBufferCount() on a buffer
\* that is an array of a coarser scale
initVoxelBuffer ==
    /\ \E finer \in BOOLEAN, weight \in 0..1 :
           voxels' = NewVoxels(IF finer
                               THEN [v \in Vox |-> [observed |-> FALSE, weight |-> weight]]
                               ELSE voxels.data, 0)
    /\ UNCHANGED notvoxelvars

\* Updater::updateBlockData<UpdateBuffer>(block, ..., low_variance,
\* project_inside)
updateBlockData ==
    /\ voxels.integr_count < MaxVoxelFrames
    /\ \E low_variance \in BOOLEAN, counted \in BOOLEAN, kind \in [Vox -> Kinds] :
           voxels' = UpdateVoxels(voxels, low_variance, kind, counted)
    /\ UNCHANGED notvoxelvars

\* the loops of Updater::freeBlock over the buffer or the current data:
\* every voxel is updated with free_voxel
freeVoxels ==
    /\ voxels.integr_count < MaxVoxelFrames
    /\ voxels' = UpdateVoxels(voxels, TRUE, [v \in Vox |-> "front"], TRUE)
    /\ UNCHANGED notvoxelvars

\* the loop of switchData() over the buffer that marks the voxels with
\* weight > 0 that are not observed, and counts them
markMissedObserved ==
    /\ \E missed \in {{v \in Vox : voxels.data[v].weight > 0 /\ ~voxels.data[v].observed}} :
           voxels' = [voxels EXCEPT
                         !.data = [v \in Vox |-> IF v \in missed
                                                 THEN [@[v] EXCEPT !.observed = TRUE]
                                                 ELSE @[v]],
                         !.observed_count = @ + Cardinality(missed),
                         !.became = @ \cup missed]
    /\ UNCHANGED notvoxelvars

(***************************************************************************)
(* Updater::operator() as its parallel loops run it.  Each iteration of a *)
(* loop is a program, a sequence of operations, that one worker runs to    *)
(* its end; the workers interleave operation by operation.  A critical     *)
(* section is an acquire and a release of its lock around its body; an     *)
(* insertion into a container reads the container and writes it back.      *)
(***************************************************************************)
Workers == 1..NumWorkers

Op(op, octant, d, lock) == [op |-> op, octant |-> octant, d |-> d, lock |-> lock]

\* a body that is not protected by its lock
Uncritical(lock, body) == body

\* #pragma omp critical(lock) { body }
Critical(lock, body) ==
    <<Op("acquire", <<>>, 0, lock)>> \o body \o <<Op("release", <<>>, 0, lock)>>

\* node_set_[d].insert(x) and freed_block_list_.push_back(x)
Insert(d, x) == <<Op("load_set", x, d, ""), Op("store_set", x, d, "")>>
PushBack(x) == <<Op("load_list", x, 0, ""), Op("store_list", x, 0, "")>>

RECURSIVE FreeOps(_, _, _)
RECURSIVE FreeChildrenOps(_, _, _, _)
\* the for loop of freeNodeRecurse over the children
FreeChildrenOps(tree, n, depth, child_idx) ==
    IF child_idx >= NumChildren THEN <<>>
    ELSE The({(IF IsBlock(c)
               THEN <<Op("free", c, 0, "")>>
                        \o Critical("node_lock", Insert(depth, Parent(c)))
                        \o Critical("block_lock", PushBack(c))
               ELSE FreeOps(tree, c, depth + 1))
                  \o FreeChildrenOps(tree, n, depth, child_idx + 1) :
                 c \in {Append(n, child_idx)}})

\* Updater::freeNodeRecurse(octant_ptr, depth) as a program
FreeOps(tree, n, depth) ==
    IF isLeaf(tree, n)
    THEN <<Op("free", n, 0, "")>> \o Critical("node_lock", Insert(depth - 1, Parent(n)))
    ELSE FreeChildrenOps(tree, n, depth, 0)

\* the four parallel loops of operator(), in order, and what follows them
Loops == <<"nodes", "blocks", "propagate_blocks", "propagate_freed", "done">>
Range(f) == {f[i] : i \in DOMAIN f}

\* the items a loop iterates over and the program of one iteration
Items(p, loop) ==
    IF loop = 1 THEN p.node_list
    ELSE IF loop \in {2, 3} THEN p.block_list
    ELSE IF loop = 4 THEN Range(p.freed_block_list)
    ELSE {}
Program(p, loop, item) ==
    IF loop = 1 THEN FreeOps(p.octree, item, Len(item))
    ELSE IF loop = 2 THEN <<Op("update", item, 0, "")>>
    ELSE <<Op("propagate", item, 0, "")>>

\* the octrees the loops are run on: two subdivided nodes with leaf nodes
\* below them, and a node whose two children have blocks below them
ParTrees ==
    {allocateAllChildren(allocateAllChildren(t, <<0>>, DefaultData), <<1>>, DefaultData) :
         t \in {allocateAllChildren(NewOctree, Root, DefaultData)}}
    \cup
    {allocateAllChildren(allocateAllChildren(t, <<0, 0>>, DefaultData), <<0, 1>>, DefaultData) :
         t \in {allocateAllChildren(allocateAllChildren(NewOctree, Root, DefaultData),
                                    <<0>>, DefaultData)}}

Idle == [ops |-> <<>>, set |-> {}, list |-> <<>>]

\* operator() is entered with the lists of the carver
ParCall(tree, node_list, block_list, data) ==
    [octree |-> tree, initial |-> tree, node_list |-> node_list,
     block_list |-> block_list, data |-> data,
     node_set |-> [d \in 0..(BlockDepth - 1) |-> {}],
     freed_block_list |-> <<>>, updated_octants |-> {},
     node_lock |-> 0, block_lock |-> 0,
     loop |-> 1, todo |-> node_list,
     worker |-> [w \in Workers |-> Idle],
     written |-> {}, unlocked |-> FALSE]

\* no call is running
NoPar == ParCall(NewOctree, {}, {}, DefaultData)

\* the effect of the first operation of the program of worker w
Execute(p, w, o) ==
    IF o.op \in {"free", "update"}
    THEN [p EXCEPT !.octree[o.octant].min_data = p.data,
                   !.octree[o.octant].max_data = p.data,
                   !.written = @ \cup {<<p.loop, w, o.octant>>}]
    ELSE IF o.op = "propagate"
    THEN [p EXCEPT !.written = @ \cup {<<p.loop, w, o.octant>>}]
    ELSE IF o.op = "acquire"
    THEN (IF o.lock = "node_lock" THEN [p EXCEPT !.node_lock = w]
          ELSE [p EXCEPT !.block_lock = w])
    ELSE IF o.op = "release"
    THEN (IF o.lock = "node_lock" THEN [p EXCEPT !.node_lock = 0]
          ELSE [p EXCEPT !.block_lock = 0])
    ELSE IF o.op = "load_set"
    THEN [p EXCEPT !.worker[w].set = p.node_set[o.d]]
    ELSE IF o.op = "store_set"
    THEN [p EXCEPT !.node_set[o.d] = p.worker[w].set \cup {o.octant},
                   !.unlocked = @ \/ p.node_lock # w]
    ELSE IF o.op = "load_list"
    THEN [p EXCEPT !.worker[w].list = p.freed_block_list]
    ELSE [p EXCEPT !.freed_block_list = Append(p.worker[w].list, o.octant),
                   !.unlocked = @ \/ p.block_lock # w]

\* an iteration that no worker takes out of the loop
NotTaken(todo, item) == todo

\* the iterations left to the workers once one of them has taken item
Taken(todo, item) == todo \ {item}

\* whether the first operation can run: a critical section waits for its lock
Runnable(p, o) ==
    o.op = "acquire" =>
        (IF o.lock = "node_lock" THEN p.node_lock = 0 ELSE p.block_lock = 0)

\* a worker that has no iteration takes one of the loop and runs its first
\* operation
takeIteration ==
    /\ \E w \in Workers, item \in par.todo :
           /\ par.worker[w].ops = <<>>
           /\ \E ops \in {Program(par, par.loop, item)} :
                  par' = [Execute([par EXCEPT !.todo = Taken(@, item)], w, Head(ops))
                              EXCEPT !.worker[w].ops = Tail(ops)]
    /\ UNCHANGED notparvars

\* a worker runs the next operation of its iteration
runOperation ==
    /\ \E w \in Workers :
           /\ par.worker[w].ops # <<>>
           /\ Runnable(par, Head(par.worker[w].ops))
           /\ par' = [Execute(par, w, Head(par.worker[w].ops))
                          EXCEPT !.worker[w].ops = Tail(par.worker[w].ops)]
    /\ UNCHANGED notparvars

\* the end of a parallel loop: every iteration is done; the next loop
\* starts, and after the last one the set of updated octants is populated
\* and propagateToRoot runs
endLoop ==
    /\ par.loop <= 4
    /\ par.todo = {}
    /\ \A w \in Workers : par.worker[w].ops = <<>>
    /\ IF par.loop < 4
       THEN par' = [par EXCEPT !.loop = @ + 1, !.todo = Items(par, par.loop + 1)]
       ELSE \E u \in {propagateToRoot(
                          PopulateUpdated(
                              [Updater(par.octree, {}) EXCEPT
                                  !.node_set = par.node_set,
                                  !.freed_block_list = Range(par.freed_block_list)],
                              par.node_list, par.block_list),
                          par.block_list, 1)} :
                par' = [par EXCEPT !.loop = 5,
                                   !.octree = u.octree,
                                   !.node_set = u.node_set,
                                   !.updated_octants = u.updated_octants]
    /\ UNCHANGED notparvars

(***************************************************************************)
(* A map as the visitor reads it, and one query.  The octree is the one    *)
(* of the model, a line of voxels halved at each level; a block has its    *)
(* current scale and its data are valid or not; a point is given in half   *)
(* voxels, so that the sample offset of half a voxel is exact.             *)
(***************************************************************************)
\* a returned_scale the query has not written
Unwritten == -1

VMap(tree, current_scale, valid) ==
    [octree |-> tree, current_scale |-> current_scale, valid |-> valid]

\* the query that starts on map m
Query(m, fn, h, desired_scale) ==
    [map |-> m, fn |-> fn, h |-> h, desired_scale |-> desired_scale,
     pc |-> "idle", octant |-> NoLeaf, scale |-> 0, base_coord |-> 0,
     base_scale |-> -1, continued |-> {}, result |-> "none", why |-> "",
     returned_scale |-> Unwritten, valid |-> FALSE, samples |-> {}]

\* no query has been made
NoVisit ==
    Query(VMap(NewOctree, [b \in {o \in Octants : IsBlock(o)} |-> max_scale],
               [b \in {o \in Octants : IsBlock(o)} |-> FALSE]), "none", 0, 0)

\* DataType(): the default data of a voxel or node, with its field, colour
\* and identifier
DefaultCellData ==
    [field |-> [occupancy |-> 0, weight |-> 0, observed |-> FALSE],
     colour |-> [rgb |-> 0, weight |-> 0],
     id |-> [segment_id |-> 0]]

\* the data of a voxel (of a leaf node if is_node) before any update; input
\* and ret are the argument and the return value of the last update and
\* last_nonzero the last identifier other than 0 given to an update
Cell(is_node, data) ==
    [is_node |-> is_node, data |-> data, op |-> "none", input |-> 0, ret |-> FALSE,
     last_nonzero |-> 0]
NoCell == Cell(FALSE, DefaultCellData)

\* BaseIterator(): the default constructed iterator, which is the end
\* iterator; yielded and popped record the octants operator* has returned
\* and the octants nextData has taken off the stack
BaseIterator(kind, tree, time_stamp, in_frustum) ==
    [kind |-> kind, octree |-> tree, time_stamp_ |-> time_stamp,
     in_frustum |-> in_frustum, begun |-> FALSE,
     octant_stack_ |-> <<>>, current_octant_ptr_ |-> NoLeaf,
     yielded |-> <<>>, popped |-> <<>>]

\* no query of the octree in three dimensions has been made
NoGather ==
    [fn |-> "none", map |-> [alloc |-> {}, pattern |-> "fine"],
     base_coord |-> <<0, 0, 0>>, scale |-> 0, node |-> <<>>, child_idx |-> 0,
     called |-> FALSE, ok |-> FALSE, neighbour_data |-> <<>>,
     child_coord |-> <<0, 0, 0>>, child_idx_back |-> 0]

\* no iterator has been made
NoIter == BaseIterator("none", NewOctree, 0, {})

InitBlock ==
    /\ \E init \in InitData, cic, coc, bic, boc \in UninitValues :
           block = BlockMultiRes(init, cic, coc, bic, boc)
    /\ alive = TRUE
    /\ fs_integr_scale \in 0..MaxFsIntegrScale
    /\ call = NoCall(block)
    /\ streak = 0
    /\ InitOctree
    /\ InitNode
    /\ voxels = NewVoxels([v \in Vox |-> [observed |-> FALSE, weight |-> 0]], 0)
    /\ par = NoPar
    /\ visit = NoVisit
    /\ iter = NoIter
    /\ cell = NoCell
    /\ gather = NoGather

\* memory errors after which the behaviour of the program is undefined
Undefined == {"double_free", "use_after_free", "out_of_bounds", "null_deref"}

\* One updateBlock / freeBlock call with the given recommended scale.
Integrate(recommended_scale, do_increment, cover_buf, cover_cur, missed_all) ==
    \E r \in {IntegrateBlock(block, recommended_scale, do_increment,
                             cover_buf, cover_cur, missed_all)} :
        /\ r.blk.curr_integr_count_ <= MaxIntegr
        /\ r.blk.buffer_integr_count_ <= MaxIntegr
        /\ block' = r.blk
        /\ call' = [recommended |-> recommended_scale, did |-> r.did]
        /\ streak' = IF ~r.did.buffered THEN 0
                     ELSE IF /\ call.did.buffered
                             /\ ~call.did.switch_ret
                             /\ call.recommended = recommended_scale
                     THEN streak + 1
                     ELSE 1
        /\ UNCHANGED <<alive, fs_integr_scale>>
        /\ UNCHANGED notblockvars

\* the inputs that matter on the path the call takes: the buffer is only
\* written when a scale switch is pending, and switchData only looks at the
\* buffer voxels once the integration count allows the switch
BufferInputs(b, recommended_scale, S) ==
    IF b.min_scale # -1 /\ recommended_scale # LastScale(b) THEN S ELSE {CHOOSE x \in S : TRUE}
SwitchInputs(b, recommended_scale, S) ==
    IF /\ b.min_scale # -1
       /\ recommended_scale = b.buffer_scale_
       /\ b.buffer_integr_count_ + 1 >= SwitchIntegrCount
    THEN S ELSE {CHOOSE x \in S : TRUE}

\* Updater::updateBlock(octant_ptr, low_variance, project_inside)
updateBlock ==
    /\ alive
    /\ block.fault \cap Undefined = {}
    /\ \E recommended_scale \in
              {RecommendedScale(block, lv, computed, mol, fs_integr_scale) :
                   lv \in BOOLEAN, mol \in BOOLEAN, computed \in 0..max_scale} :
         \E project_inside \in BufferInputs(block, recommended_scale, BOOLEAN),
            cover_buf \in BufferInputs(block, recommended_scale, Cover),
            missed_all \in SwitchInputs(block, recommended_scale, BOOLEAN),
            cover_cur \in Cover :
             Integrate(recommended_scale, project_inside,
                       cover_buf, cover_cur, missed_all)

\* Updater::freeBlock(octant_ptr)
freeBlock ==
    /\ alive
    /\ block.fault \cap Undefined = {}
    /\ \E recommended_scale \in
              {RecommendedScale(block, TRUE, computed, mol, fs_integr_scale) :
                   mol \in BOOLEAN, computed \in 0..max_scale} :
         \E cover_buf \in BufferInputs(block, recommended_scale, Cover),
            missed_all \in SwitchInputs(block, recommended_scale, BOOLEAN),
            cover_cur \in Cover :
             Integrate(recommended_scale, TRUE,
                       cover_buf, cover_cur, missed_all)

\* the block is deallocated (pruning, or the destruction of the octree)
destroyBlock ==
    /\ alive
    /\ block.fault \cap Undefined = {}
    /\ block' = Destructor(block)
    /\ alive' = FALSE
    /\ UNCHANGED <<fs_integr_scale, call, streak>>
    /\ UNCHANGED notblockvars

NextBlock == updateBlock \/ freeBlock \/ destroyBlock

SpecBlock == InitBlock /\ [][NextBlock]_vars

(***************************************************************************)
(* The octree under the volume carver and the updater (SpecTree)          *)
(***************************************************************************)
NewBlock ==
    /\ block = BlockMultiRes([observed |-> FALSE, weight |-> 0], 0, 0, 0, 0)
    /\ alive = TRUE
    /\ fs_integr_scale = 0
    /\ call = NoCall(block)
    /\ streak = 0

InitTree ==
    /\ NewBlock
    /\ InitOctree
    /\ InitNode
    /\ voxels = NewVoxels([v \in Vox |-> [observed |-> FALSE, weight |-> 0]], 0)
    /\ par = NoPar
    /\ visit = NoVisit
    /\ iter = NoIter
    /\ cell = NoCell
    /\ gather = NoGather

\* The volume carver subdivides a leaf node: it allocates all its children.
\* A child is constructed with the data of its parent or with default data.
\* The carver works on a new frame: the caller has taken the set of the
\* last one.
allocateChildren ==
    /\ Cardinality(Allocated(octree_)) + NumChildren <= MaxOctants
    /\ \E n \in Allocated(octree_), inherit \in BOOLEAN :
           /\ ~IsBlock(n)
           /\ isLeaf(octree_, n)
           /\ inherit => NodeDataOf(octree_, n) # DefaultData
           /\ octree_' = allocateAllChildren(octree_, n,
                             IF inherit THEN NodeDataOf(octree_, n) ELSE DefaultData)
    /\ updated_octants' = {}
    /\ frame' = [NoFrame EXCEPT !.number = frame.number]
    /\ UNCHANGED timestamp_
    /\ UNCHANGED nottreevars

\* One frame: an updater is constructed with the timestamp of the frame,
\* which is the one of the last frame or a later one, and called with the
\* lists of the carver and an empty set for the updated octants.
integrate ==
    /\ frame.number < MaxFrames
    /\ \E timestamp \in {t \in {timestamp_, timestamp_ + 1} : t >= 1} :
      \E node_list \in NodeLists(octree_) :
        \E block_list \in BlockLists(octree_, node_list) :
          \E data \in (IF node_list \cup block_list = {}
                        THEN {DefaultData} ELSE FrameData) :
            \E u \in {UpdaterCall(octree_, {}, node_list, block_list,
                                  data, data, timestamp)} :
                /\ octree_' = u.octree
                /\ updated_octants' = u.updated_octants
                /\ timestamp_' = timestamp
                /\ frame' = [called |-> TRUE,
                             number |-> frame.number + 1,
                             reduced |-> u.reduced,
                             inserted |-> block_list \cup u.freed_block_list
                                              \cup {r.node : r \in u.reduced}
                                              \cup {n \in node_list : isLeaf(octree_, n)},
                             deallocated |-> Allocated(octree_) \ Allocated(u.octree),
                             after_passes |-> u.after_passes,
                             block_list |-> block_list,
                             node_set |-> u.node_set,
                             again |-> FALSE,
                             fault |-> {},
                             node_list |-> node_list,
                             last_timestamp |-> timestamp_,
                             log |-> u.log]
                /\ UNCHANGED nottreevars

\* the octants of the block list and of the worklists that the propagation
\* of the frame has deallocated: propagateToRoot reads the parent pointer
\* of every block of the list and the timestamp of every node of
\* node_set_[d], d > 0
Dangling(tree, block_list, node_set) ==
    {o \in block_list \cup UNION {node_set[d] : d \in 1..(BlockDepth - 1)} :
        ~tree[o].allocated}

\* propagateToRoot(block_list) run a second time by the updater of the last
\* frame, with the worklists and the set the first run has left and no
\* integration in between.  Reading an octant that the first run has
\* deallocated is undefined.
propagateToRootAgain ==
    /\ frame.called
    /\ IF Dangling(octree_, frame.block_list, frame.node_set) # {}
       THEN /\ frame' = [frame EXCEPT !.again = TRUE, !.fault = {"use_after_free"}]
            /\ UNCHANGED <<octree_, updated_octants>>
       ELSE \E u \in {propagateToRoot(
                          [Updater(octree_, updated_octants) EXCEPT
                              !.node_set = frame.node_set],
                          frame.block_list, timestamp_)} :
                /\ octree_' = u.octree
                /\ updated_octants' = u.updated_octants
                /\ frame' = [frame EXCEPT !.again = TRUE]
    /\ UNCHANGED timestamp_
    /\ UNCHANGED nottreevars

InitNodeOnly == InitTree

NextNode == setChild

InitVoxel ==
    /\ NewBlock
    /\ InitOctree
    /\ InitNode
    /\ InitVoxels
    /\ par = NoPar
    /\ visit = NoVisit
    /\ iter = NoIter
    /\ cell = NoCell
    /\ gather = NoGather

NextVoxel == initVoxelBuffer \/ updateBlockData \/ freeVoxels \/ markMissedObserved

SpecVoxel == InitVoxel /\ [][NextVoxel]_vars

SpecNode == InitNodeOnly /\ [][NextNode]_vars

InitPar ==
    /\ NewBlock
    /\ InitOctree
    /\ InitNode
    /\ voxels = NewVoxels([v \in Vox |-> [observed |-> FALSE, weight |-> 0]], 0)
    /\ visit = NoVisit
    /\ iter = NoIter
    /\ cell = NoCell
    /\ gather = NoGather
    /\ \E tree \in ParTrees :
         \E node_list \in NodeLists(tree) :
           \E block_list \in BlockLists(tree, node_list) :
             \E data \in FrameData :
                 par = ParCall(tree, node_list, block_list, data)

NextPar == takeIteration \/ runOperation \/ endLoop

SpecPar == InitPar /\ [][NextPar]_vars

NextTree == allocateChildren \/ integrate \/ propagateToRootAgain

SpecTree == InitTree /\ [][NextTree]_vars

(***************************************************************************)
(* Properties of the per-block integration (SpecBlock)                    *)
(***************************************************************************)

\* C1: switchData() performs the scale switch and returns true if and only
\* if, at the time of the call, buffer_integr_count >= 20 and
\* buffer_observed_count * (2^buffer_scale)^3
\*     >= 0.9 * curr_observed_count * (2^current_scale)^3;
\* in every other block state it returns false.
SwitchDataIffCondition ==
    call.did.switch_called =>
        LET b == call.did.pre_switch
            cond == /\ b.buffer_integr_count_ >= 20
                    /\ 10 * b.buffer_observed_count_ * (2 ^ b.buffer_scale_) ^ 3
                           >= 9 * b.curr_observed_count_ * (2 ^ b.current_scale) ^ 3
        IN  /\ call.did.switch_ret <=> cond
            /\ call.did.switch_ret =>
                   call.did.post_switch.current_scale = b.buffer_scale_

\* a call of switchData() that switched
SwitchDataSwitched ==
    /\ call.did.switch_called
    /\ call.did.switch_ret
    /\ call.did.pre_switch.curr_observed_count_ > 0

\* a call of switchData() that found 20 integrations but not the coverage
SwitchDataRefusedForCoverage ==
    /\ call.did.switch_called
    /\ ~call.did.switch_ret
    /\ call.did.pre_switch.buffer_integr_count_ >= 20

\* C2: for every block that has been integrated before (min_scale # -1) the
\* scale chosen by updateBlock / freeBlock differs from the last integration
\* scale by at most 1, so a buffer is only ever initialised at
\* last_scale - 1 or last_scale + 1.
ScaleChangesByAtMostOne ==
    (call.did.called /\ ~call.did.fresh) =>
        /\ call.recommended - call.did.last_scale \in {-1, 0, 1}
        /\ call.did.init_called =>
               call.did.pre_switch.buffer_scale_ \in
                   {call.did.last_scale - 1, call.did.last_scale + 1}

\* C3: for every block, in every state reachable by integrations,
\* 0 <= min_scale <= current_scale <= max_scale, the data stack has exactly
\* max_scale - min_scale + 1 levels, and at the finest allocated scale the
\* min-data and max-data stacks point to the same array as the mean data.
BlockScaleInvariant ==
    (call.did.called /\ alive /\ block.fault = {}) =>
        /\ 0 <= block.min_scale
        /\ block.min_scale <= block.current_scale
        /\ block.current_scale <= max_scale
        /\ Len(block.data_) = max_scale - block.min_scale + 1
        /\ Back(block.min_data_) = Back(block.data_)
        /\ Back(block.max_data_) = Back(block.data_)

\* C4: the first fusion of a fresh block sets both current_scale and
\* min_scale to the recommended scale r, for every r in 0..max_scale, and
\* initialises the current counters from init_data (the frame itself then
\* counts as one integration); afterwards the block is no longer fresh.
FirstFusionSetsBothScales ==
    (call.did.called /\ call.did.fresh /\ alive) =>
        LET init == call.did.pre_switch.init_data
        IN  /\ block.current_scale = call.recommended
            /\ block.min_scale = call.recommended
            /\ block.min_scale # -1
            /\ block.curr_integr_count_ = (IF init.observed THEN init.weight ELSE 0) + 1

\* the buffer covers at least 90% of the observed volume of the current data
CoverageAt(b) ==
    10 * b.buffer_observed_count_ * (2 ^ b.buffer_scale_) ^ 3
        >= 9 * b.curr_observed_count_ * (2 ^ b.current_scale) ^ 3

\* the last call continued or began a streak of frames recommending the
\* same scale r, one away from the current scale
InStreak ==
    /\ call.did.buffered
    /\ call.recommended - call.did.last_scale \in {-1, 1}

\* the block ended the call switched to the recommended scale
SwitchedToRecommended ==
    /\ call.did.switch_ret
    /\ block.min_scale = call.recommended
    /\ block.current_scale = call.recommended

\* C5 as stated: every frame of a streak is integrated into the buffer at
\* scale r, switchData returns false on each of the first 19 frames, and on
\* the 20th frame, if the coverage condition holds, the switch succeeds and
\* the block ends with min_scale = current_scale = r.
SwitchOnTwentiethFrame ==
    InStreak =>
        /\ call.did.pre_switch.buffer_scale_ = call.recommended
        /\ streak < 20 => ~call.did.switch_ret
        /\ (streak = 20 /\ CoverageAt(call.did.pre_switch)) => SwitchedToRecommended

\* C5 amended: every frame of a streak is integrated into the buffer at
\* scale r and switchData returns false on each of the first 19 frames; a
\* frame only counts towards the 20 if it projects inside the image or the
\* coverage condition already holds, so the switch succeeds, with
\* min_scale = current_scale = r, on the first frame at which 20 frames have
\* counted and the coverage condition holds: the 20th frame if all did.
SwitchOnTwentiethCountedFrame ==
    InStreak =>
        /\ call.did.pre_switch.buffer_scale_ = call.recommended
        /\ call.did.pre_switch.buffer_integr_count_ <= streak
        /\ streak < 20 => ~call.did.switch_ret
        /\ (call.did.pre_switch.buffer_integr_count_ < 20) => ~call.did.switch_ret
        /\ (/\ streak = 20
            /\ call.did.pre_switch.buffer_integr_count_ = 20
            /\ CoverageAt(call.did.pre_switch)) => SwitchedToRecommended

\* the 20th frame of a streak switched the block
TwentiethFrameSwitched ==
    InStreak /\ streak = 20 /\ SwitchedToRecommended

\* the 20th frame of a streak did not switch although the coverage held
TwentiethFrameNotCounted ==
    /\ InStreak
    /\ streak = 20
    /\ CoverageAt(call.did.pre_switch)
    /\ ~call.did.switch_ret

\* C6: after switchData() succeeds with buffer scale b: current_scale =
\* min_scale = b; the mean, min and max stacks each hold max_scale - b + 1
\* levels and have the former buffer array as their finest level;
\* curr_integr_count is the buffer's integration count; the buffer is empty.
SwitchPostState ==
    (call.did.switch_called /\ call.did.switch_ret) =>
        LET pre == call.did.pre_switch
            post == call.did.post_switch
        IN  /\ post.current_scale = pre.buffer_scale_
            /\ post.min_scale = pre.buffer_scale_
            /\ Len(post.data_) = max_scale - pre.buffer_scale_ + 1
            /\ Len(post.min_data_) = max_scale - pre.buffer_scale_ + 1
            /\ Len(post.max_data_) = max_scale - pre.buffer_scale_ + 1
            /\ Back(post.data_) = pre.buffer_data_
            /\ Back(post.min_data_) = pre.buffer_data_
            /\ Back(post.max_data_) = pre.buffer_data_
            /\ post.curr_integr_count_ = pre.buffer_integr_count_
            /\ post.buffer_scale_ = -1
            /\ post.buffer_data_ = Null
            /\ post.buffer_integr_count_ = 0
            /\ post.buffer_observed_count_ = 0

\* C7: when switchData() returns false it changes nothing (scales, stacks,
\* buffer array, buffer scale and all four counters are as before the
\* call), so the accumulated buffer is kept and the next frame that
\* recommends the buffer's scale continues with it instead of starting a
\* new buffer.
FailedSwitchKeepsBuffer ==
    /\ [](call.did.switch_called /\ ~call.did.switch_ret =>
              call.did.post_switch = call.did.pre_switch)
    /\ [][(/\ call.did.switch_called
           /\ ~call.did.switch_ret
           /\ alive'
           /\ call' # call
           /\ call'.recommended = block.buffer_scale_)
          => /\ call'.did.switch_called
             /\ ~call'.did.init_called
             /\ call'.did.pre_switch.buffer_data_ = block.buffer_data_
             /\ call'.did.pre_switch.buffer_scale_ = block.buffer_scale_
             /\ call'.did.pre_switch.buffer_integr_count_ >= block.buffer_integr_count_
             /\ call'.did.pre_switch.buffer_observed_count_ >= block.buffer_observed_count_]_vars

\* a frame that continued with the buffer a failed switch had left
FailedSwitchRetried ==
    /\ call.did.buffered
    /\ streak > 1
    /\ ~call.did.switch_ret
    /\ call.did.pre_switch.buffer_integr_count_ > 1

\* C8: over every sequence of allocateDownTo, initBuffer, resetBuffer,
\* switchData and deleteUpTo followed by the destruction of the block, every
\* voxel array is released exactly once and never used after release.
NoMemoryFault ==
    block.fault \cap {"double_free", "use_after_free", "leak"} = {}

(***************************************************************************)
(* Properties of the propagation with pruning (SpecTree)                  *)
(***************************************************************************)

\* C9: after operator() returns, the set of updated octants contains no
\* octant that was deallocated by pruning during the call, whatever the
\* shape of the pruned subtree: every octant of the set is allocated.
NoStaleUpdatedOctant ==
    frame.called =>
        /\ updated_octants \cap frame.deallocated = {}
        /\ \A o \in updated_octants : octree_[o].allocated

\* a call that pruned a node together with octants it had put into the set
\* two levels below that node
PrunedBelowUpdated ==
    /\ frame.called
    /\ \E n \in Allocated(octree_) :
           /\ isLeaf(octree_, n)
           /\ \E o \in frame.deallocated \cap frame.inserted :
                  o \in Below(n) /\ Len(o) >= Len(n) + 2

\* C10: a node n at depth >= 1 that the sweep reduces is pruned exactly
\* when its freshly reduced data is observed with a field value at or below
\* 0.95 * min_occupancy; after pruning no octant below n is allocated, n is
\* a leaf, and the data of n has a field value at or below
\* 0.95 * min_occupancy.
PrunedExactlyWhenFree ==
    frame.called =>
        \A r \in frame.reduced :
            /\ Len(r.node) >= 1
            /\ r.leaf <=> (r.data.observed /\ 100 * r.data.field <= 95 * (-100))
            /\ r.leaf =>
                   /\ Children(r.node) \subseteq frame.deallocated
                   /\ Below(r.node) \cap Allocated(octree_) = {}
                   /\ octree_[r.node].allocated =>
                          /\ isLeaf(octree_, r.node)
                          /\ octree_[r.node].max_data = r.data
                          /\ NodeDataOf(octree_, r.node) = r.data
                          /\ 100 * NodeDataOf(octree_, r.node).field <= 95 * (-100)

\* a sweep that pruned one node and reduced another without pruning it
SubtreePruned ==
    /\ frame.called
    /\ \E r \in frame.reduced :
           /\ r.leaf
           /\ octree_[r.node].allocated
           /\ Children(r.node) \subseteq frame.deallocated
    /\ \E r \in frame.reduced : ~r.leaf

\* C11: after any sequence of integrations every allocated node has
\* min_data <= max_data, and the data of each of its allocated children lies
\* between the node's min_data and max_data; this includes the nodes that
\* were on no propagation path of the latest frame and the nodes that had
\* children pruned.
NodeAggregatesBoundChildren ==
    frame.called =>
        \A n \in Allocated(octree_) :
            ~IsBlock(n) =>
                /\ octree_[n].min_data.field <= octree_[n].max_data.field
                /\ \A c \in Children(n) :
                       octree_[c].allocated =>
                           /\ octree_[n].min_data.field <= octree_[c].min_data.field
                           /\ octree_[c].max_data.field <= octree_[n].max_data.field

ObservedCountExact ==
    voxels.observed_count = voxels.initial + Cardinality(voxels.became)

\* C17: operator() creates no octant and deallocates octants only by the
\* pruning of the sweep: the node-list pass, the block-list pass and the
\* propagation inside the blocks leave the set of allocated octants as it
\* was, the octants gone after the call are those below the nodes the sweep
\* has pruned, and the root is never deallocated.
IntegrateOnlyPrunes ==
    [][(frame'.number = frame.number + 1) =>
           /\ frame'.after_passes = Allocated(octree_)
           /\ Allocated(octree_') \subseteq Allocated(octree_)
           /\ Allocated(octree_) \ Allocated(octree_') =
                  UNION {Below(r.node) \cap Allocated(octree_) :
                            r \in {q \in frame'.reduced : q.leaf}}
           /\ octree_'[Root].allocated]_vars

\* a call with both lists non-empty whose sweep has pruned below one node
\* and has kept another node, with its children, allocated
PrunedAfterBothPasses ==
    /\ frame.called
    /\ frame.deallocated # {}
    /\ frame.block_list # {}
    /\ frame.inserted \ (frame.block_list \cup {r.node : r \in frame.reduced}) # {}
    /\ \E r \in frame.reduced : ~r.leaf /\ ~isLeaf(octree_, r.node)

\* C18: after any sequence of setChild calls on a node, bit i of child_mask
\* is set exactly when child slot i is not null, for every i in 0..7, and
\* child_mask is 0 exactly when every slot is null (the node is a leaf).
ChildMaskMatchesSlots ==
    /\ \A i \in 0..(NumSlots - 1) : HasBit(child_mask, i) <=> children_ptr_[i] # Null
    /\ (child_mask = 0) <=> (\A i \in 0..(NumSlots - 1) : children_ptr_[i] = Null)
    /\ child_mask \in 0..255

\* setChild has cleared the highest slot, which held a child, while other
\* slots hold children
ChildClearedAmongOthers ==
    /\ set_child.called
    /\ set_child.child_idx = NumSlots - 1
    /\ set_child.child_ptr = Null
    /\ set_child.was # Null
    /\ \E i \in 0..(NumSlots - 2) : children_ptr_[i] # Null

(***************************************************************************)
(* visitor::getData with a desired scale                                   *)
(***************************************************************************)
\* the voxels a query can name, by the block position they lie in, and the
\* scales it can ask for
VoxelCoords == {o \in Octants : IsBlock(o)}
ScalesDesired == 0..(max_scale + BlockDepth)

IMax(a, b) == IF a >= b THEN a ELSE b

\* octree.getMaxScale() - depth: log2 of node_ptr->getSize()
Log2Size(n) == max_scale + BlockDepth - Len(n)

\* fetcher::finest_octant(voxel_coord, scale, root): the deepest allocated
\* octant that contains the voxel
finest_octant(tree, voxel_coord) ==
    CHOOSE o \in Allocated(tree) :
        /\ SubSeq(voxel_coord, 1, Len(o)) = o
        /\ \A q \in Allocated(tree) :
               SubSeq(voxel_coord, 1, Len(q)) = q => Len(q) <= Len(o)

\* fetcher::leaf(voxel_coord, root): the leaf that contains the voxel, null
\* when the child the voxel lies in is missing from a node that has other
\* children
leaf(tree, voxel_coord) ==
    The({IF IsBlock(o) \/ isLeaf(tree, o) THEN o ELSE NoLeaf :
             o \in {finest_octant(tree, voxel_coord)}})

\* BlockMultiRes::data(data_, voxel_coord, scale_desired, scale_returned):
\* the scale returned and the array of the stack that is read, Null when
\* the index is outside the stack
BlockData(blk, scale_desired) ==
    The({[scale_returned |-> scale_returned,
          level |-> max_scale - scale_returned,
          array |-> IF max_scale - scale_returned + 1 \in DOMAIN blk.data_
                    THEN blk.data_[max_scale - scale_returned + 1] ELSE Null] :
             scale_returned \in {IMax(scale_desired, blk.current_scale)}})

\* visitor::getData(octree, voxel_coord, scale_desired, scale_returned);
\* blk is the block object when the leaf is a block
getData(tree, blk, voxel_coord, scale_desired) ==
    The({IF octant_ptr = NoLeaf
         THEN [is_block |-> FALSE, octant |-> NoLeaf, assigned |-> FALSE,
               scale_returned |-> Unwritten, array |-> Null]
         ELSE IF IsBlock(octant_ptr)
         THEN The({[is_block |-> TRUE, octant |-> octant_ptr, assigned |-> TRUE,
                    scale_returned |-> r.scale_returned, array |-> r.array] :
                       r \in {BlockData(blk, scale_desired)}})
         ELSE [is_block |-> FALSE, octant |-> octant_ptr, assigned |-> TRUE,
               scale_returned |-> scale_desired, array |-> Null] :
             octant_ptr \in {leaf(tree, voxel_coord)}})

\* C19: for every voxel whose enclosing leaf is a node and every desired
\* scale, getData reports the scale of the node, log2 of its size, whatever
\* the desired scale is.
NodeLeafReportsNodeScale ==
    \A voxel_coord \in VoxelCoords, scale_desired \in ScalesDesired :
        \E r \in {getData(octree_, block, voxel_coord, scale_desired)} :
            (r.octant # NoLeaf /\ ~r.is_block) => r.scale_returned = Log2Size(r.octant)

\* C20: in every state a block that exists can be in, for every desired
\* scale from 0 to max_scale, the data of the block is read at a returned
\* scale that is at least the current scale and at least the desired
\* scale, and the array read at that scale is an allocated level of the
\* data stack.
BlockReadAtAllocatedScale ==
    alive =>
        \A scale_desired \in 0..max_scale :
            \E r \in {BlockData(block, scale_desired)} :
                /\ r.scale_returned >= IMax(block.current_scale, scale_desired)
                /\ r.array # Null
                /\ r.array \in block.live

(***************************************************************************)
(* visitor::interp and visitor::grad on a multi-resolution octree          *)
(***************************************************************************)
\* octantops::scale_to_size: 1 << octant_scale
scale_to_size(octant_scale) == 2 ^ octant_scale

\* octree.getSize(), octant_ptr->size and octant_ptr->coord
OctreeSize == scale_to_size(max_scale + BlockDepth)
SizeOf(n) == scale_to_size(Log2Size(n))
RECURSIVE CoordOf(_)
CoordOf(n) == IF n = <<>> THEN 0 ELSE CoordOf(Parent(n)) + n[Len(n)] * SizeOf(n)

\* the block position a voxel lies in
PathOf(coord) ==
    CHOOSE b \in VoxelCoords : CoordOf(b) <= coord /\ coord < CoordOf(b) + BlockSize

\* fetcher::leaf and fetcher::finest_octant on the coordinates of a voxel
LeafAt(m, coord) == leaf(m.octree, PathOf(coord))
FinestAt(m, coord) == finest_octant(m.octree, PathOf(coord))

\* the block object of a block octant: its data stack reaches from
\* max_scale down to its current scale
BlockOf(m, b) ==
    [current_scale |-> m.current_scale[b],
     data_ |-> [i \in 1..(max_scale - m.current_scale[b] + 1) |-> i]]

\* octree.aabb().contains(coord): the box spans the allocated blocks and
\* the leaf nodes that hold observed data
AabbContains(tree, coord) ==
    \E lo, hi \in {o \in Allocated(tree) :
                      IsBlock(o) \/ (isLeaf(tree, o) /\ tree[o].max_data.observed)} :
        CoordOf(lo) <= coord /\ coord <= CoordOf(hi) + SizeOf(hi) - 1

\* the integer part of a / b for b > 0: the greatest integer that is not
\* above it
Floor(a, b) == a \div b

\* Eigen cast<int>() of a / b for b > 0: the fraction is dropped, towards 0
CastInt(a, b) == IF a >= 0 THEN a \div b ELSE -((-a) \div b)

\* stride * (1.0f / stride * voxel_coord_f - sample_offset_frac).cast<int>()
\* for the point h / 2: the argument of the cast is (h - stride) / (2 * stride)
BaseCoord(h, stride) == stride * CastInt(h - stride, 2 * stride)

\* a test of the leaf that forgets the scale of a block
UnusableWhenNull(m, leaf_ptr, scale) == leaf_ptr = NoLeaf

\* !leaf_ptr || (leaf_ptr->is_block && current_scale > scale)
Unusable(m, leaf_ptr, scale) ==
    leaf_ptr = NoLeaf \/ (IsBlock(leaf_ptr) /\ m.current_scale[leaf_ptr] > scale)

\* detail::get_neighbours(octree, base_coord, scale, neighbour_data): whether
\* the gather succeeded and the reads it made, each of a leaf at the
\* coordinates of a sample
get_neighbours(m, base_coord, scale) ==
    The({IF base_coord + stride >= OctreeSize \/ base_coord < 0
         THEN [ok |-> FALSE, reads |-> {}]
         ELSE The({IF base_octant_ptr = NoLeaf
                   THEN [ok |-> FALSE, reads |-> {}]
                   ELSE The({IF ~crossmask
                             THEN (IF Unusable(m, base_octant_ptr, scale)
                                   THEN [ok |-> FALSE, reads |-> {}]
                                   ELSE [ok |-> TRUE,
                                         reads |-> {<<base_octant_ptr, base_coord>>,
                                                    <<base_octant_ptr, base_coord + stride>>}])
                             ELSE The({IF Unusable(m, base_octant_ptr, scale)
                                          \/ Unusable(m, leaf_2_ptr, scale)
                                       THEN [ok |-> FALSE, reads |-> {}]
                                       ELSE [ok |-> TRUE,
                                             reads |-> {<<base_octant_ptr, base_coord>>,
                                                        <<leaf_2_ptr, base_coord + stride>>}] :
                                          leaf_2_ptr \in {LeafAt(m, base_coord + stride)}}) :
                                crossmask \in
                                    {IF base_coord % SizeOf(base_octant_ptr)
                                            = SizeOf(base_octant_ptr) - stride
                                        /\ ~IsBlock(base_octant_ptr)
                                     THEN base_coord % BlockSize = BlockSize - stride
                                     ELSE base_coord % SizeOf(base_octant_ptr)
                                            = SizeOf(base_octant_ptr) - stride}}) :
                      base_octant_ptr \in {LeafAt(m, base_coord)}}) :
             stride \in {scale_to_size(scale)}})

\* a validity test that accepts default data
ReadAlwaysValid(m, octant_ptr) == TRUE

\* is_valid of the data read from a leaf: the data of a block, or
\* NodeData::data() of a node
ReadValid(m, octant_ptr) ==
    IF octant_ptr = NoLeaf THEN FALSE
    ELSE IF IsBlock(octant_ptr) THEN m.valid[octant_ptr]
    ELSE NodeDataOf(m.octree, octant_ptr).observed

\* detail::gradient_sample_coords: the stencil around base_coord, clamped
\* to the octree
gradient_sample_coords(base_coord, scale) ==
    {Max2(base_coord - scale_to_size(scale), 0),
     base_coord,
     Min2(base_coord + scale_to_size(scale), OctreeSize - 1),
     Min2(base_coord + 2 * scale_to_size(scale), OctreeSize - 1)}

\* getData(octree, block_ptr, voxel_coord, scale_desired, scale_returned)
getDataFrom(m, block_ptr, voxel_coord, scale_desired) ==
    IF CoordOf(block_ptr) <= voxel_coord /\ voxel_coord <= CoordOf(block_ptr) + BlockSize - 1
    THEN The({[is_block |-> TRUE, octant |-> block_ptr, assigned |-> TRUE,
               scale_returned |-> r.scale_returned, array |-> r.array] :
                  r \in {BlockData(BlockOf(m, block_ptr), scale_desired)}})
    ELSE getData(m.octree, BlockOf(m, PathOf(voxel_coord)), PathOf(voxel_coord),
                 scale_desired)

\* a sample of the stencil passes: returned_scale == scale && valid(data);
\* a scale that getData did not assign holds any value
SampleUsable(m, r, scale, garbage) ==
    /\ (IF r.assigned THEN r.scale_returned ELSE garbage) = scale
    /\ ReadValid(m, r.octant)

\* the points a query can ask for, in half voxels: the lower part of the
\* octree and its upper end
QueryPoints == 0..(2 * 4 * BlockSize + 3) \cup (2 * OctreeSize - 4)..(2 * OctreeSize - 1)

\* the query returns
Return(q, result, why) == [q EXCEPT !.pc = "done", !.result = result, !.why = why]

\* for (...; scale <= BlockType::max_scale; scale++) after a continue
Continue(q) ==
    IF q.scale + 1 > max_scale
    THEN Return([q EXCEPT !.continued = @ \cup {q.scale}], "nullopt", "exhausted")
    ELSE [q EXCEPT !.continued = @ \cup {q.scale}, !.scale = @ + 1]

\* returned_scale is written after the gather and before the samples are
\* tested
InterpResultEarly(q, g) ==
    IF \E rd \in g.reads : ~ReadValid(q.map, rd[1])
    THEN Return([q EXCEPT !.returned_scale =
                     IF IsBlock(q.octant) THEN q.scale ELSE Log2Size(q.octant)],
                "nullopt", "invalid")
    ELSE Return([q EXCEPT !.samples = g.reads,
                          !.returned_scale =
                              IF IsBlock(q.octant) THEN q.scale ELSE Log2Size(q.octant)],
                "value", "")

\* the end of an iteration of interpImpl whose gather g succeeded
InterpResult(q, g) ==
    IF \E rd \in g.reads : ~ReadValid(q.map, rd[1])
    THEN Return(q, "nullopt", "invalid")
    ELSE Return([q EXCEPT !.samples = g.reads,
                          !.returned_scale =
                              IF IsBlock(q.octant) THEN q.scale ELSE Log2Size(q.octant)],
                "value", "")

\* a gather that gives up as soon as it fails
GiveUp(q) == Return([q EXCEPT !.continued = @ \cup {q.scale}], "nullopt", "exhausted")

\* visitor::getData(octree, voxel_coord, scale_desired, scale_returned)
callGetData ==
    /\ visit.fn = "none"
    /\ \E h \in QueryPoints, desired_scale \in 0..max_scale :
           \E q \in {Query(visit.map, "getData", h, desired_scale)} :
             \E r \in {getData(q.map.octree, BlockOf(q.map, PathOf(h \div 2)),
                               PathOf(h \div 2), desired_scale)} :
                 visit' = Return([q EXCEPT !.octant = r.octant,
                                           !.valid = ReadValid(q.map, r.octant),
                                           !.returned_scale =
                                               IF r.assigned THEN r.scale_returned
                                               ELSE Unwritten,
                                           !.samples = {<<r.octant, h \div 2>>}],
                                 "data", IF r.octant = NoLeaf THEN "no_leaf" ELSE "")
    /\ UNCHANGED notvisitvars

\* visitor::interp: detail::interpImpl up to its loop
callInterp ==
    /\ visit.fn = "none"
    /\ \E h \in QueryPoints, desired_scale \in 0..max_scale :
           \E q \in {Query(visit.map, "interp", h, desired_scale)} :
             \E octant_ptr \in {LeafAt(q.map, h \div 2)} :
                 visit' = IF octant_ptr = NoLeaf
                          THEN Return(q, "nullopt", "no_leaf")
                          ELSE [q EXCEPT !.pc = "loop", !.octant = octant_ptr,
                                         !.scale = IF IsBlock(octant_ptr)
                                                   THEN IMax(q.map.current_scale[octant_ptr],
                                                             desired_scale)
                                                   ELSE 0]
    /\ UNCHANGED notvisitvars

\* one iteration of the loop of detail::interpImpl
interpIteration ==
    /\ visit.fn = "interp"
    /\ visit.pc = "loop"
    /\ \E base_coord \in {BaseCoord(visit.h, scale_to_size(visit.scale))} :
         \E q \in {[visit EXCEPT !.base_coord = base_coord, !.base_scale = visit.scale]} :
           visit' = IF ~AabbContains(q.map.octree, base_coord)
                    THEN Return(q, "nullopt", "aabb")
                    ELSE The({IF ~g.ok THEN Continue(q) ELSE InterpResult(q, g) :
                                 g \in {get_neighbours(q.map, base_coord, q.scale)}})
    /\ UNCHANGED notvisitvars

\* visitor::grad: detail::gradImpl up to its loop
callGrad ==
    /\ visit.fn = "none"
    /\ \E h \in QueryPoints, desired_scale \in 0..max_scale :
           \E q \in {Query(visit.map, "grad", h, desired_scale)} :
             \E octant \in {FinestAt(q.map, h \div 2)} :
                 visit' = IF ~IsBlock(octant)
                          THEN (IF NodeDataOf(q.map.octree, octant).observed
                                THEN Return([q EXCEPT !.octant = octant,
                                                      !.returned_scale = Log2Size(octant)],
                                            "value", "node")
                                ELSE Return([q EXCEPT !.octant = octant],
                                            "nullopt", "node_invalid"))
                          ELSE [q EXCEPT !.pc = "loop", !.octant = octant,
                                         !.scale = IMax(desired_scale,
                                                        q.map.current_scale[octant])]
    /\ UNCHANGED notvisitvars

\* one iteration of the loop of detail::gradImpl
gradIteration ==
    /\ visit.fn = "grad"
    /\ visit.pc = "loop"
    /\ \E base_coord \in {BaseCoord(visit.h, scale_to_size(visit.scale))},
          garbage \in {Unwritten, visit.scale} :
         \E q \in {[visit EXCEPT !.base_coord = base_coord, !.base_scale = visit.scale]} :
           \E octant_ptr \in {FinestAt(q.map, base_coord)} :
             visit' =
                IF ~IsBlock(octant_ptr)
                THEN (IF isLeaf(q.map.octree, octant_ptr)
                         /\ NodeDataOf(q.map.octree, octant_ptr).observed
                      THEN Return([q EXCEPT !.returned_scale = Log2Size(octant_ptr)],
                                  "value", "node")
                      ELSE Continue(q))
                ELSE The({IF \E r \in rs : ~SampleUsable(q.map, r, q.scale, garbage)
                          THEN Continue(q)
                          ELSE Return([q EXCEPT !.returned_scale = q.scale,
                                                !.samples = {<<r.octant, 0>> : r \in rs}],
                                      "value", "") :
                             rs \in {{getDataFrom(q.map, q.octant, c, q.scale) :
                                         c \in gradient_sample_coords(base_coord, q.scale)}}})
    /\ UNCHANGED notvisitvars

\* Octree::allocate(parent_ptr, child_idx, child_ptr): one child
allocate(tree, parent, child_idx) ==
    [tree EXCEPT ![Append(parent, child_idx)] =
        [allocated |-> TRUE, min_data |-> DefaultData, max_data |-> DefaultData,
         timestamp |-> -1]]

\* a leaf node that an integration has freed
Freed(tree, n) ==
    [tree EXCEPT ![n].min_data = [observed |-> TRUE, field |-> min_occupancy],
                 ![n].max_data = [observed |-> TRUE, field |-> min_occupancy]]

\* the octrees the queries are made on.  The first has two blocks beside a
\* leaf node and nothing in its upper half; the second has a block beside
\* a missing block and a leaf node as its upper half.  The leaf node is
\* observed free space or has never been observed.
VisitTrees ==
    UNION {{t, Freed(t, <<0, 1>>)} :
              t \in {allocateAllChildren(
                        allocateAllChildren(allocate(NewOctree, Root, 0), <<0>>, DefaultData),
                        <<0, 0>>, DefaultData)}}
    \cup
    UNION {{t, Freed(t, <<1>>)} :
              t \in {allocate(
                        allocateAllChildren(
                            allocateAllChildren(
                                allocateAllChildren(NewOctree, Root, DefaultData),
                                <<0>>, DefaultData),
                            <<0, 0>>, DefaultData),
                        <<0, 1>>, 0)}}

\* the current scales of the blocks of the map and whether their data are
\* valid
VisitScales == {0, 2}
MapsOf(t) ==
    {VMap(t, cs, vd) :
        cs \in {f \in [VoxelCoords -> VisitScales \cup {max_scale}] :
                   \A b \in VoxelCoords :
                       IF t[b].allocated THEN f[b] \in VisitScales ELSE f[b] = max_scale},
        vd \in {[b \in VoxelCoords |-> t[b].allocated /\ (all \/ b # <<0, 0, 1>>)] :
                   all \in BOOLEAN}}
VisitMaps == UNION {MapsOf(t) : t \in VisitTrees}

InitVisit ==
    /\ NewBlock
    /\ InitOctree
    /\ InitNode
    /\ voxels = NewVoxels([v \in Vox |-> [observed |-> FALSE, weight |-> 0]], 0)
    /\ par = NoPar
    /\ iter = NoIter
    /\ cell = NoCell
    /\ gather = NoGather
    /\ \E m \in VisitMaps : visit = Query(m, "none", 0, 0)

NextVisit == callGetData \/ callInterp \/ interpIteration \/ callGrad \/ gradIteration

SpecVisit == InitVisit /\ [][NextVisit]_vars

\* the gather of the two samples of the point h / 2 at a scale, as the
\* contract states it: both samples lie in the octree, the leaf of each is
\* allocated, and no block among them is coarser than the scale
GatherSucceeds(m, h, scale) ==
    \A c \in {BaseCoord(h, scale_to_size(scale)),
              BaseCoord(h, scale_to_size(scale)) + scale_to_size(scale)} :
        /\ c >= 0
        /\ c < OctreeSize
        /\ LeafAt(m, c) # NoLeaf
        /\ IsBlock(LeafAt(m, c)) => m.current_scale[LeafAt(m, c)] <= scale

\* the first scale interpImpl tries for a point in a block
InitScale(q) == IMax(q.desired_scale, q.map.current_scale[q.octant])

\* C21: interp for a point inside a block starts at max(desired_scale,
\* current_scale), passes over a scale only when the gather failed at it,
\* tries the scales in order without skipping one, and a value it returns
\* is evaluated at the first scale at which the gather succeeds, which is
\* the scale it reports and is at most max_scale.
InterpAtFirstGatherScale ==
    (visit.fn = "interp" /\ visit.octant # NoLeaf /\ IsBlock(visit.octant)) =>
        /\ \A s \in visit.continued : ~GatherSucceeds(visit.map, visit.h, s)
        /\ visit.pc = "loop" => visit.continued = InitScale(visit)..(visit.scale - 1)
        /\ visit.result = "value" =>
              /\ visit.returned_scale = visit.base_scale
              /\ visit.returned_scale \in InitScale(visit)..max_scale
              /\ visit.continued = InitScale(visit)..(visit.returned_scale - 1)
              /\ GatherSucceeds(visit.map, visit.h, visit.returned_scale)

\* interp returned a value at a scale coarser than the first one it tried,
\* with a sample in a second leaf
InterpSucceededAtCoarserScale ==
    /\ visit.fn = "interp"
    /\ visit.result = "value"
    /\ IsBlock(visit.octant)
    /\ visit.continued # {}
    /\ \E rd \in visit.samples : rd[1] # visit.octant

\* C22: a gradient that grad computes at scale s uses stencil samples that
\* were all read at scale s: each lies in a block whose current scale is at
\* most s, none in a leaf node above the block level.
GradSamplesAtReturnedScale ==
    (visit.fn = "grad" /\ visit.result = "value" /\ visit.why = "") =>
        \A rd \in visit.samples :
            /\ IsBlock(rd[1])
            /\ visit.map.current_scale[rd[1]] <= visit.returned_scale

\* C23: the base corner of every gather that interp makes for the point
\* h / 2 is the stride times floor(p / stride - 0.5), also for points
\* closer than half a stride to the lower boundary of the octree.
BaseCornerIsFloor ==
    (visit.fn = "interp" /\ visit.base_scale >= 0) =>
        visit.base_coord = scale_to_size(visit.base_scale)
                               * Floor(visit.h - scale_to_size(visit.base_scale),
                                       2 * scale_to_size(visit.base_scale))

\* C24: when interp or grad returns nullopt, *returned_scale holds what it
\* held before the call, whatever the failure path was.
ReturnedScaleUntouchedOnFailure ==
    (visit.fn \in {"interp", "grad"} /\ visit.result = "nullopt") =>
        visit.returned_scale = Unwritten

\* interp failed on an invalid sample after the gather had failed at a
\* finer scale and succeeded at the next one
InterpFailedOnInvalidSample ==
    /\ visit.fn = "interp"
    /\ visit.result = "nullopt"
    /\ visit.why = "invalid"
    /\ visit.continued # {}

\* C25: getData on a voxel whose leaf is not allocated returns default data,
\* which is not valid; interp and grad return nullopt when the leaf that
\* encloses the point is not allocated; and a value that interp or grad
\* returns was computed from samples that all lie in allocated leaves.
MissingDataIsNotAFailure ==
    /\ (visit.fn # "none" /\ LeafAt(visit.map, visit.h \div 2) = NoLeaf) =>
          /\ visit.pc = "done"
          /\ visit.fn = "getData" => (visit.result = "data" /\ ~visit.valid)
          /\ visit.fn \in {"interp", "grad"} => visit.result = "nullopt"
    /\ visit.result = "value" => \A rd \in visit.samples : rd[1] # NoLeaf

\* grad gave up a scale at which a sample of its stencil lies in a leaf
\* that is not allocated, although the point lies in a block
GradPassedOverMissingLeaf ==
    /\ visit.fn = "grad"
    /\ IsBlock(visit.octant)
    /\ visit.base_scale \in visit.continued
    /\ IsBlock(FinestAt(visit.map, visit.base_coord))
    /\ \E c \in gradient_sample_coords(visit.base_coord, visit.base_scale) :
           LeafAt(visit.map, c) = NoLeaf

\* the updater of the same call run by a single thread
Sequential(p) ==
    UpdaterCall(p.initial, {}, p.node_list, p.block_list, p.data, p.data, 1)

\* the updater of the same call after its loop over node_list only
SequentialFreed(p) == FreeNodes(Updater(p.initial, {}), p.node_list, p.data)

\* the workers that have written octant o in a loop
Writers(p, loop, o) == {w \in Workers : <<loop, w, o>> \in p.written}

\* C15: with lists that reach no block twice, no octant is written by two
\* workers in one parallel loop, and once the call is over every block of
\* the list has been written by exactly one worker in the per-block loop
\* and in the propagation loop, every freed block by exactly one worker in
\* the loop over the nodes and in the loop over the freed blocks, and the
\* octree and the updated octants are those of the same call run by a
\* single thread, whatever the interleaving of the workers was.
ParallelEqualsSequential ==
    /\ \A loop \in 1..4, o \in Octants : Cardinality(Writers(par, loop, o)) <= 1
    /\ par.loop = 5 =>
          \E u \in {Sequential(par)} :
              /\ par.octree = u.octree
              /\ par.updated_octants = u.updated_octants
              /\ \A b \in par.block_list, loop \in {2, 3} :
                     Cardinality(Writers(par, loop, b)) = 1
              /\ \A b \in u.freed_block_list, loop \in {1, 4} :
                     Cardinality(Writers(par, loop, b)) = 1

\* a call is over in which both workers wrote octants in the loop over the
\* nodes and in the per-block loop, and the octree was pruned
BothWorkersWroteEveryPass ==
    /\ par.loop = 5
    /\ \A w \in Workers, loop \in {1, 2} : \E e \in par.written : e[1] = loop /\ e[2] = w
    /\ Allocated(par.octree) # Allocated(par.initial)

\* whether worker w is between the read and the write of an insertion
InsertingSet(p, w) == p.worker[w].ops # <<>> /\ Head(p.worker[w].ops).op = "store_set"
InsertingList(p, w) == p.worker[w].ops # <<>> /\ Head(p.worker[w].ops).op = "store_list"

\* C16: a worker writes node_set_ only while it holds node_lock and
\* freed_block_list_ only while it holds block_lock, no two workers are
\* inside an insertion into the same container at once, after the loop over
\* the nodes both containers hold every insertion exactly once, and the
\* per-block loop and the two block propagation loops leave both
\* containers as they are.
SharedWritesGuarded ==
    /\ [](/\ ~par.unlocked
          /\ \A w1, w2 \in Workers :
                 w1 # w2 => /\ ~(InsertingSet(par, w1) /\ InsertingSet(par, w2))
                            /\ ~(InsertingList(par, w1) /\ InsertingList(par, w2))
          /\ par.loop \in 2..4 =>
                 \E u \in {SequentialFreed(par)} :
                     /\ par.node_set = u.node_set
                     /\ Range(par.freed_block_list) = u.freed_block_list
                     /\ Len(par.freed_block_list) = Cardinality(u.freed_block_list))
    /\ [][par.loop \in 2..4 /\ par'.loop \in 2..4 =>
              /\ par'.node_set = par.node_set
              /\ par'.freed_block_list = par.freed_block_list]_vars

\* a worker waits for node_lock while the other one is inside an insertion
\* into node_set_, and a block has already been pushed on freed_block_list_
WorkerWaitsForNodeLock ==
    \E w1, w2 \in Workers :
        /\ InsertingSet(par, w1)
        /\ par.node_lock = w1
        /\ par.worker[w2].ops # <<>>
        /\ Head(par.worker[w2].ops) = Op("acquire", <<>>, 0, "node_lock")
        /\ par.freed_block_list # <<>>

(***************************************************************************)
(* The octree iterators.  An iterator holds a stack of octant pointers    *)
(* and the current octant; the derived iterator gives isNext and, when it *)
(* has an ignore condition, doIgnore.  The octree is not modified while   *)
(* it is iterated.                                                         *)
(***************************************************************************)
\* DerivedT::has_ignore_condition
has_ignore_condition(kind) == kind \in {"update", "frustum"}

\* an ignore condition that never holds
NeverIgnore(it, octant) == FALSE

\* UpdateIterator::doIgnore, FrustumIterator::doIgnore
doIgnore(it, octant) ==
    IF it.kind = "update" THEN it.octree[octant].timestamp < it.time_stamp_
    ELSE octant \notin it.in_frustum

\* OctreeIterator, NodesIterator, BlocksIterator, LeavesIterator,
\* UpdateIterator and FrustumIterator ::isNext
isNext(it, octant) ==
    CASE it.kind = "octree" -> TRUE
      [] it.kind = "nodes" -> ~IsBlock(octant)
      [] it.kind = "blocks" -> IsBlock(octant)
      [] it.kind = "leaves" -> IsBlock(octant) \/ isLeaf(it.octree, octant)
      [] it.kind = "update" ->
            IsBlock(octant) /\ it.octree[octant].timestamp >= it.time_stamp_
      [] it.kind = "frustum" -> IsBlock(octant)

\* a loop over the children that pushes the first allocated child only
RECURSIVE PushFirstChild(_, _, _, _)
PushFirstChild(tree, stack, octant, child_idx) ==
    IF child_idx >= NumChildren \/ IsBlock(octant) THEN stack
    ELSE IF tree[Append(octant, child_idx)].allocated
         THEN Append(stack, Append(octant, child_idx))
         ELSE PushFirstChild(tree, stack, octant, child_idx + 1)

\* the for loop of nextData: the non-null children of a node are pushed
\* in the order of their indices
RECURSIVE PushChildren(_, _, _, _)
PushChildren(tree, stack, octant, child_idx) ==
    IF child_idx >= NumChildren \/ IsBlock(octant) THEN stack
    ELSE PushChildren(tree,
                      The({IF tree[c].allocated THEN Append(stack, c) ELSE stack :
                              c \in {Append(octant, child_idx)}}),
                      octant, child_idx + 1)

\* BaseIterator::nextData()
RECURSIVE nextData(_)
nextData(it) ==
    IF it.octant_stack_ = <<>> THEN [it EXCEPT !.current_octant_ptr_ = NoLeaf]
    ELSE The({
        IF has_ignore_condition(it.kind) /\ doIgnore(it, octant)
        THEN nextData(The({p : p \in {[it EXCEPT !.octant_stack_ = PopBack(@),
                                                 !.popped = Append(@, octant)]}}))
        ELSE The({IF isNext(it, octant)
                  THEN [p EXCEPT !.current_octant_ptr_ = octant,
                                 !.yielded = Append(@, octant)]
                  ELSE nextData(p) :
                     p \in {[it EXCEPT
                               !.octant_stack_ =
                                   PushChildren(it.octree, PopBack(@), octant, 0),
                               !.popped = Append(@, octant)]}}) :
        octant \in {Back(it.octant_stack_)}})

\* BaseIterator::operator==(other) with the default constructed iterator
\* as other
IsEnd(it) == it.octant_stack_ = <<>> /\ it.current_octant_ptr_ = NoLeaf

\* the octrees of the model: the root and below it any octants whose
\* parents are allocated
TreeOf(S) ==
    [o \in Octants |->
        IF o \in S
        THEN [allocated |-> TRUE, min_data |-> DefaultData, max_data |-> DefaultData,
              timestamp |-> 0]
        ELSE NoOctant]
IterTrees ==
    {TreeOf(S) : S \in {T \in SUBSET Octants :
                           Root \in T /\ \A o \in T \ {Root} : Parent(o) \in T}}

\* the octree the iterators with an ignore condition run on: two blocks
\* under each of two nodes in the lower half, a leaf node in the upper half
IgnoreTree ==
    TreeOf({Root, <<0>>, <<1>>, <<0, 0>>, <<0, 1>>, <<1, 0>>,
            <<0, 0, 0>>, <<0, 0, 1>>, <<0, 1, 0>>, <<0, 1, 1>>})

\* its octants stamped with the frames 0 and 1 of their last update: the
\* propagation stamps every ancestor of an updated octant
Stamped ==
    {[o \in Octants |-> [IgnoreTree[o] EXCEPT !.timestamp = IF o \in S THEN 1 ELSE @]] :
        S \in {T \in SUBSET Allocated(IgnoreTree) :
                  \A o \in T \ {Root} : Parent(o) \in T}}

\* OctreeIterator(octree_ptr) and the other constructors: the root is
\* pushed and the first octant is looked for
begin ==
    /\ ~iter.begun
    /\ iter' = nextData([iter EXCEPT !.begun = TRUE, !.octant_stack_ = <<Root>>])
    /\ UNCHANGED notitervars

\* operator++
increment ==
    /\ iter.begun
    /\ iter' = nextData(iter)
    /\ UNCHANGED notitervars

InitIter ==
    /\ NewBlock
    /\ InitOctree
    /\ InitNode
    /\ voxels = NewVoxels([v \in Vox |-> [observed |-> FALSE, weight |-> 0]], 0)
    /\ par = NoPar
    /\ visit = NoVisit
    /\ cell = NoCell
    /\ gather = NoGather
    /\ \/ \E kind \in {"octree", "nodes", "blocks", "leaves"}, tree \in IterTrees :
             iter = BaseIterator(kind, tree, 0, {})
       \/ \E tree \in Stamped : iter = BaseIterator("update", tree, 1, {})
       \/ \E in_frustum \in SUBSET Allocated(IgnoreTree) :
             iter = BaseIterator("frustum", IgnoreTree, 0, in_frustum)

NextIter == begin \/ increment

SpecIter == InitIter /\ [][NextIter]_vars

\* every increment that is asked for is made
SpecIterFair == SpecIter /\ WF_vars(begin) /\ WF_vars(increment)

\* the octants an iterator without ignore condition is to yield
Yields(kind, tree) ==
    CASE kind = "octree" -> Allocated(tree)
      [] kind = "nodes" -> {o \in Allocated(tree) : Len(o) < BlockDepth}
      [] kind = "blocks" -> {o \in Allocated(tree) : Len(o) = BlockDepth}
      [] kind = "leaves" ->
            {o \in Allocated(tree) :
                Len(o) = BlockDepth \/ \A c \in Allocated(tree) : Parent(c) # o \/ c = Root}
      [] OTHER -> {}

NoRepeat(s) == \A i, j \in 1..Len(s) : i # j => s[i] # s[j]

\* C26: the all-octants, nodes-only, blocks-only and leaves-only iterators
\* never yield an octant twice nor an octant outside their set, the current
\* octant is the last one yielded, at the end exactly the allocated
\* octants, nodes, blocks or leaves have been yielded, and the end is
\* reached after finitely many increments: no more octants are taken off
\* the stack than are allocated
IteratesEachOnce ==
    /\ [](~has_ignore_condition(iter.kind) =>
            /\ NoRepeat(iter.yielded)
            /\ Range(iter.yielded) \subseteq Yields(iter.kind, iter.octree)
            /\ Len(iter.popped) <= Cardinality(Allocated(iter.octree))
            /\ (iter.begun /\ ~IsEnd(iter)) =>
                   iter.current_octant_ptr_ = iter.yielded[Len(iter.yielded)]
            /\ (iter.begun /\ IsEnd(iter)) =>
                   Range(iter.yielded) = Yields(iter.kind, iter.octree))
    /\ <>(iter.begun /\ IsEnd(iter))

\* a leaves-only iteration has ended on an octree with blocks, a childless
\* node and nodes with children
LeavesIterationEnded ==
    /\ iter.kind = "leaves" /\ iter.begun /\ IsEnd(iter)
    /\ Len(iter.yielded) >= 3
    /\ \E o \in Range(iter.yielded) : ~IsBlock(o)
    /\ \E o \in Range(iter.yielded) : IsBlock(o)
    /\ Cardinality(Allocated(iter.octree)) > Len(iter.yielded) + 2

\* skip_subtree(octant) and visit(octant) of the iterators with a skip
\* condition
skip_subtree(it, o) ==
    \/ it.kind = "update" /\ it.octree[o].timestamp < it.time_stamp_
    \/ it.kind = "frustum" /\ o \notin it.in_frustum
visit_octant(it, o) ==
    /\ Len(o) = BlockDepth
    /\ it.kind = "update" => it.octree[o].timestamp >= it.time_stamp_
Ancestors(o) == {SubSeq(o, 1, k) : k \in 0..(Len(o) - 1)}

\* C27: an iterator with a skip condition never yields an octant for which
\* skip_subtree holds, never takes a descendant of such an octant off its
\* stack and so never yields one, yields no octant twice and only octants
\* that satisfy visit, and at the end has yielded every octant that
\* satisfies visit and has no skipped octant among itself and its ancestors
SkippedSubtreesPruned ==
    has_ignore_condition(iter.kind) =>
        /\ \A o \in Range(iter.yielded) :
               visit_octant(iter, o) /\ ~skip_subtree(iter, o)
        /\ \A o \in Range(iter.popped) \cup Range(iter.yielded) \cup Range(iter.octant_stack_) :
               \A a \in Ancestors(o) : ~skip_subtree(iter, a)
        /\ NoRepeat(iter.yielded)
        /\ (iter.begun /\ IsEnd(iter)) =>
               \A o \in Allocated(iter.octree) :
                   (/\ visit_octant(iter, o)
                    /\ \A a \in Ancestors(o) \cup {o} : ~skip_subtree(iter, a))
                       => o \in Range(iter.yielded)

\* a frustum iteration has ended that skipped a node with a block in the
\* frustum below it and yielded another block
FrustumIterationSkippedNode ==
    /\ iter.kind = "frustum" /\ iter.begun /\ IsEnd(iter)
    /\ iter.yielded # <<>>
    /\ \E o \in Allocated(iter.octree) :
           /\ IsBlock(o) /\ ~skip_subtree(iter, o)
           /\ skip_subtree(iter, Parent(o))
           /\ Parent(o) \in Range(iter.popped)

(***************************************************************************)
(* The data of one voxel or leaf node under the updates of an             *)
(* integration: the occupancy field (log-odds, weight, observed), the     *)
(* colour and the identifier.                                              *)
(***************************************************************************)
\* map_.getDataConfig().field: log_odd_min and log_odd_max, the log-odds a
\* free and an occupied sample add, and the bounds of the field
log_odd_min == -40
log_odd_max == -log_odd_min
field_min == min_occupancy
field_max == -min_occupancy
max_weight == MaxWeight

\* g_no_id (g_not_segmented in the update functions), g_not_mapped and the
\* identifiers of the model
g_no_id == 0
g_not_mapped == 65535
Ids == {g_no_id, 1, g_not_mapped}

Clamp(x, lo, hi) == Max2(lo, Min2(x, hi))

\* a field update that lets the log-odds grow without bound
FieldUpdateUnclamped(field, log_odd_update) ==
    [occupancy |-> field.occupancy + log_odd_update,
     weight |-> Min2(field.weight + 1, max_weight),
     observed |-> TRUE]

\* field.update(sample, max_weight)
FieldUpdate(field, log_odd_update) ==
    [occupancy |-> Clamp(field.occupancy + log_odd_update, field_min, field_max),
     weight |-> Min2(field.weight + 1, max_weight),
     observed |-> TRUE]

\* colour.update(colour, max_weight): the weighted mean of the colours
ColourUpdate(colour, sample) ==
    [rgb |-> (colour.rgb * colour.weight + sample) \div (colour.weight + 1),
     weight |-> Min2(colour.weight + 1, max_weight)]

\* an identifier update that stores every input
update_any(id, segment_id_) ==
    [id |-> [id EXCEPT !.segment_id = segment_id_], ret |-> TRUE]

\* IdData<Id::On>::update(segment_id_), SemanticData<Semantics::On>::update
update(id, segment_id_) ==
    IF segment_id_ # g_no_id
    THEN [id |-> [id EXCEPT !.segment_id = segment_id_], ret |-> TRUE]
    ELSE [id |-> id, ret |-> FALSE]

\* a free-space update that also writes the colour
free_voxel_coloured(data) ==
    [data EXCEPT !.field = FieldUpdate(@, log_odd_min),
                 !.colour = ColourUpdate(@, 0)]

\* updater::free_voxel(data, config)
free_voxel(data) == [data EXCEPT !.field = FieldUpdate(@, log_odd_min)]

\* NodeData::data(): the data of an observed leaf, else the default data
NodeCellData(data) == IF data.field.observed THEN data ELSE DefaultCellData

\* the data the updates read and write: of a node through data()
CellData(c) == IF c.is_node THEN NodeCellData(c.data) ELSE c.data

\* one pass of the loops of Updater::freeBlock over the voxel, and of the
\* loop of updateBlockData with low_variance
freeVoxel ==
    /\ ~cell.is_node
    /\ cell' = [cell EXCEPT !.data = free_voxel(@), !.op = "freeVoxel",
                            !.ret = ~cell.data.field.observed]
    /\ UNCHANGED notcellvars

\* Updater::freeNodeRecurse(octant_ptr, depth) on a leaf node
freeNode ==
    /\ cell.is_node
    /\ cell' = [cell EXCEPT
                  !.data = The({[node_data EXCEPT !.field = FieldUpdate(@, log_odd_min)] :
                                   node_data \in {NodeCellData(cell.data)}}),
                  !.op = "freeNode", !.ret = FALSE]
    /\ UNCHANGED notcellvars

\* one pass of the loop of updateBlockData without low_variance over the
\* voxel: the field is updated unless the voxel is behind the surface
\* (range_diff >= tau), the colour if the field was, the depth is within
\* the far plane, there is a colour image and the hit projects into it
updateVoxel ==
    /\ ~cell.is_node
    /\ \E log_odd_update \in {log_odd_min, log_odd_max},
          field_updated, far, has_colour_, projects \in BOOLEAN, sample \in 0..1 :
         cell' = [cell EXCEPT
                    !.data = The({IF ~far /\ has_colour_ /\ field_updated /\ projects
                                  THEN [d EXCEPT !.colour = ColourUpdate(@, sample)]
                                  ELSE d :
                                     d \in {IF field_updated
                                            THEN [cell.data EXCEPT
                                                    !.field = FieldUpdate(@, log_odd_update)]
                                            ELSE cell.data}}),
                    !.op = "updateVoxel",
                    !.ret = field_updated /\ ~cell.data.field.observed]
    /\ UNCHANGED notcellvars

\* data.id.update(segment_id_)
idUpdate ==
    /\ ~cell.is_node
    /\ \E segment_id_ \in Ids :
         \E r \in {update(cell.data.id, segment_id_)} :
           cell' = [cell EXCEPT !.data.id = r.id, !.op = "idUpdate",
                                !.input = segment_id_, !.ret = r.ret,
                                !.last_nonzero =
                                    IF segment_id_ # g_no_id THEN segment_id_ ELSE @]
    /\ UNCHANGED notcellvars

\* the data of a new voxel, and of a leaf node: never observed, or the
\* maximum data of the children of a node that has been pruned
InitCellData ==
    {DefaultCellData,
     [field |-> [occupancy |-> field_min, weight |-> max_weight, observed |-> TRUE],
      colour |-> [rgb |-> 1, weight |-> 1],
      id |-> [segment_id |-> 1]]}

InitCell ==
    /\ NewBlock
    /\ InitOctree
    /\ InitNode
    /\ voxels = NewVoxels([v \in Vox |-> [observed |-> FALSE, weight |-> 0]], 0)
    /\ par = NoPar
    /\ visit = NoVisit
    /\ iter = NoIter
    /\ \E is_node \in BOOLEAN, data \in InitCellData : cell = Cell(is_node, data)
    /\ gather = NoGather

NextCell == freeVoxel \/ freeNode \/ updateVoxel \/ idUpdate

SpecCell == InitCell /\ [][NextCell]_vars

\* the colour and the identifier of a record
Facets(c) == <<CellData(c).colour, CellData(c).id>>

\* C28: a free-space update (a pass of freeBlock or of updateBlockData with
\* low variance over a voxel, freeNodeRecurse on a leaf node) leaves the
\* colour and the identifier of the record as they were
FreeSpaceKeepsColourAndId ==
    [][cell'.op \in {"freeVoxel", "freeNode"} => Facets(cell') = Facets(cell)]_vars

\* a voxel with an identifier and a colour that two updates have written
\* has been freed
ColouredVoxelFreed ==
    /\ cell.op = "freeVoxel"
    /\ cell.data.colour.weight > 1 /\ cell.data.colour.rgb # 0
    /\ cell.data.id.segment_id # g_no_id
    /\ cell.data.field.occupancy < 0

\* C29: an identifier update with input 0 leaves the stored identifier as it
\* was and returns false; a stored identifier other than 0 stays other than
\* 0; after an update with an input other than 0 the stored identifier is
\* the last such input
IdSticky ==
    /\ [](cell.last_nonzero # g_no_id => cell.data.id.segment_id = cell.last_nonzero)
    /\ [][/\ cell.data.id.segment_id # g_no_id => cell'.data.id.segment_id # g_no_id
          /\ (cell'.op = "idUpdate" /\ cell'.input = g_no_id) =>
                 /\ cell'.data.id = cell.data.id
                 /\ ~cell'.ret
          /\ (cell'.op = "idUpdate" /\ cell'.input # g_no_id) =>
                 /\ cell'.data.id.segment_id = cell'.input
                 /\ cell'.ret]_vars

\* an update with input 0 has left an identifier that an earlier update
\* had stored
ZeroInputKeptId ==
    /\ cell.op = "idUpdate" /\ cell.input = g_no_id /\ ~cell.ret
    /\ cell.last_nonzero = g_not_mapped
    /\ cell.data.id.segment_id = g_not_mapped

\* C30: the record of a voxel or leaf node has a weight in 0..max_weight
\* and log-odds in field_min..field_max
FieldInRange ==
    /\ cell.data.field.weight \in 0..max_weight
    /\ cell.data.field.occupancy \in field_min..field_max
    /\ CellData(cell).field.weight \in 0..max_weight
    /\ CellData(cell).field.occupancy \in field_min..field_max

\* updates of a voxel have saturated its log-odds and its weight
FieldSaturated ==
    /\ ~cell.is_node /\ cell.op = "updateVoxel"
    /\ cell.data.field.weight = max_weight
    /\ cell.data.field.occupancy = field_max

(***************************************************************************)
(* The next call of Updater::operator() on the octree: what it does for   *)
(* every pair of lists the carver can emit.                                *)
(***************************************************************************)
\* the node lists of the carver, whose recursion starts at the root: nodes
\* none of which lies under another
CarverNodeLists(tree) ==
    {L \in SUBSET {n \in Allocated(tree) : ~IsBlock(n)} :
        /\ Cardinality(L) <= MaxList
        /\ \A n \in L : L \cap Below(n) = {}}

\* the calls of the next frame and what they do
CallsWith(node_list) ==
    {[node_list |-> node_list, block_list |-> block_list,
      upd |-> UpdaterCall(octree_, {}, node_list, block_list, data, data, timestamp_ + 1)] :
        block_list \in BlockLists(octree_, node_list), data \in FrameData}
NextCalls == UNION {CallsWith(node_list) : node_list \in CarverNodeLists(octree_)}

Events(upd, op) == {upd.log[i] : i \in {j \in 1..Len(upd.log) : upd.log[j].op = op}}

\* C31: every insertion into node_set_ has an index d in 0..block_depth - 1
\* and inserts a non-null node of depth d, whatever nodes the node list
\* holds, the root included
InsertionsAtDepthOfNode ==
    \A c \in NextCalls :
        \A e \in Events(c.upd, "insert") :
            /\ e.d \in 0..(BlockDepth - 1)
            /\ e.octant # NoLeaf
            /\ Len(e.octant) = e.d

\* the octants of the subtree of n when the passes of the last frame ran
Subtree(n) == {o \in frame.after_passes : o = n \/ o \in Below(n)}
WasLeaf(n) == \A c \in Children(n) : c \notin frame.after_passes
Count(op, octant) ==
    Cardinality({i \in 1..Len(frame.log) :
                    frame.log[i].op = op /\ frame.log[i].octant = octant})
Inserted(octant, d) == Event("insert", octant, d) \in Range(frame.log)

Reductions == {i \in 1..Len(frame.log) : frame.log[i].op = "propagate_to_parent_node"}
Reduced(n) == \E i \in Reductions : frame.log[i].octant = n

\* the blocks and leaf nodes the passes of the last frame have updated
UpdatedInFrame ==
    frame.block_list
        \cup {frame.log[i].octant :
                 i \in {j \in 1..Len(frame.log) :
                           frame.log[j].op \in {"freeBlock", "free_node"}}}

\* the sweep reduces at depths that never increase, from block_depth - 1
\* down to 1, each node at most once, inserts the parent of a reduced node
\* in the worklist above, and ends with the one reduction of the root
SweepInOrder ==
    /\ \A i, j \in Reductions :
           /\ i < j => frame.log[i].d >= frame.log[j].d
           /\ i # j => frame.log[i].octant # frame.log[j].octant
    /\ \A i \in Reductions :
           /\ frame.log[i].d = Len(frame.log[i].octant)
           /\ frame.log[i].d \in 0..(BlockDepth - 1)
           /\ frame.log[i].octant # Root =>
                  /\ i < Len(frame.log)
                  /\ frame.log[i + 1] =
                         Event("insert", Parent(frame.log[i].octant), frame.log[i].d - 1)
    /\ Len(frame.log) \in Reductions
    /\ frame.log[Len(frame.log)].octant = Root
    /\ \A i \in Reductions : frame.log[i].octant = Root => i = Len(frame.log)

\* every node above an updated block or leaf node is reduced, after the
\* children of it that are reduced
PathsReduced ==
    /\ \A o \in UpdatedInFrame : \A a \in Ancestors(o) : Reduced(a)
    /\ \A i, j \in Reductions :
           (frame.log[i].octant # Root /\ Parent(frame.log[i].octant) = frame.log[j].octant)
               => i < j

\* C33: the sweep of every frame reduces in order of decreasing depth, each
\* node at most once, inserts the parent of each reduced node, ends with the
\* one reduction of the root, and reduces every node on the paths from the
\* blocks and leaf nodes updated in the frame to the root, children first
SweepReducesEveryPath ==
    frame.called => SweepInOrder /\ PathsReduced

\* the same with the paths required only of a frame whose timestamp is
\* greater than that of the last frame (no node carries it yet)
SweepReducesEveryPathOfLaterFrame ==
    frame.called =>
        /\ SweepInOrder
        /\ timestamp_ > frame.last_timestamp => PathsReduced

\* a frame later than the last has updated a block and a leaf node at
\* different depths and its sweep has reduced nodes at two depths
SweptTwoDepths ==
    /\ frame.called /\ timestamp_ > frame.last_timestamp /\ frame.number = 2
    /\ \E o \in UpdatedInFrame : IsBlock(o)
    /\ \E o \in UpdatedInFrame : ~IsBlock(o)
    /\ \E i, j \in Reductions : frame.log[i].d = 2 /\ frame.log[j].d = 1

\* for (auto it = UpdateIterator(&octree, time_stamp); it != end; ++it):
\* the octants the loop is given
RECURSIVE Drain(_)
Drain(it) == IF IsEnd(it) THEN {it.yielded[i] : i \in 1..Len(it.yielded)}
             ELSE Drain(nextData(it))
UpdateIteratorYields(tree, time_stamp) ==
    Drain(nextData([BaseIterator("update", tree, time_stamp, {})
                       EXCEPT !.begun = TRUE, !.octant_stack_ = <<Root>>]))

\* the blocks the last frame has fused or freed
BlocksOfFrame == {o \in UpdatedInFrame : IsBlock(o)}

\* C34: after a frame whose timestamp is greater than that of every earlier
\* frame the update iterator constructed with that timestamp yields exactly
\* the blocks fused or freed in the frame that still exist
UpdateIteratorYieldsBlocksOfFrame ==
    (frame.called /\ timestamp_ > frame.last_timestamp) =>
        UpdateIteratorYields(octree_, timestamp_) = BlocksOfFrame \cap Allocated(octree_)

\* what holds of it: it yields no block that the frame has left alone, and
\* the nodes above the blocks of the frame carry the timestamp of the frame
UpdateIteratorYieldsNoOldBlock ==
    (frame.called /\ timestamp_ > frame.last_timestamp) =>
        /\ UpdateIteratorYields(octree_, timestamp_) \subseteq BlocksOfFrame
        /\ \A o \in BlocksOfFrame \cap Allocated(octree_) :
               \A a \in Ancestors(o) : octree_[a].timestamp >= timestamp_

\* C38: every node has no child or all of them, and whenever the node-list
\* pass has descended into a node every child slot held an allocated octant
ChildrenAllOrNone ==
    /\ \A n \in Allocated(octree_) :
           ~IsBlock(n) =>
               \/ isLeaf(octree_, n)
               \/ \A c \in Children(n) : octree_[c].allocated
    /\ \A i \in 1..Len(frame.log) : frame.log[i].op # "null_child"

\* the node-list pass has descended into a node with nodes and into a node
\* with blocks below it, and the sweep of the frame has pruned a node
DescendedAndPruned ==
    /\ frame.called
    /\ \E n \in frame.node_list :
           /\ \E i \in 1..Len(frame.log) :
                  frame.log[i].op = "freeBlock" /\ frame.log[i].octant \in Subtree(n)
           /\ \E i \in 1..Len(frame.log) :
                  /\ frame.log[i].op = "free_node"
                  /\ frame.log[i].octant \in Subtree(n) \ {n}
    /\ frame.deallocated # {}

\* the two states of the buffer at the end of a call
BufferEmpty(b) ==
    /\ b.buffer_scale_ = -1
    /\ b.buffer_data_ = Null
    /\ b.buffer_integr_count_ = 0
    /\ b.buffer_observed_count_ = 0
BufferPending(b, recommended_scale) ==
    /\ b.buffer_scale_ = recommended_scale
    /\ b.buffer_scale_ # b.current_scale
    /\ b.buffer_data_ # Null

\* C35: at the end of every updateBlock / freeBlock call the buffer is empty
\* or pending at the recommended scale of the call, it is empty whenever the
\* block was fresh, the recommended scale was the last scale or the switch
\* succeeded, and the buffer array is null iff buffer_scale is -1
BufferEmptyOrPending ==
    (alive /\ call.did.called) =>
        /\ BufferEmpty(block) \/ BufferPending(block, call.recommended)
        /\ (\/ call.did.fresh
            \/ call.recommended = call.did.last_scale
            \/ call.did.switch_ret) => BufferEmpty(block)
        /\ (block.buffer_data_ = Null) <=> (block.buffer_scale_ = -1)

\* the same for a block whose buffer counts the constructor has left at 0
BufferEmptyOrPendingOfZeroedBlock ==
    (alive /\ call.did.called) =>
        /\ \/ BufferPending(block, call.recommended)
           \/ block.buffer_scale_ = -1 /\ block.buffer_data_ = Null
        /\ (\/ call.did.fresh
            \/ call.recommended = call.did.last_scale
            \/ call.did.switch_ret) => block.buffer_scale_ = -1
        /\ (block.buffer_data_ = Null) <=> (block.buffer_scale_ = -1)

\* the loops of updateBlock / freeBlock that initialise a finer buffer: the
\* writes bufferData(buffer_idx) = currData(parent_idx), observed = false,
\* they make for a buffer at recommended_scale and current data at
\* last_scale (the loops take the buffer to be twice as wide as the
\* current data)
InitBufferWrites(recommended_scale, last_scale) ==
    UNION {{[buffer_idx |-> (2 * x + i) + (2 * y + j) * sb + (2 * z + k) * sb * sb,
             parent_idx |-> x + y * sp + z * sp * sp,
             observed |-> FALSE] :
               x \in 0..(sp - 1), y \in 0..(sp - 1), z \in 0..(sp - 1),
               i \in 0..1, j \in 0..1, k \in 0..1} :
           sp \in {Shr(BlockSize, last_scale)}, sb \in {2 * Shr(BlockSize, last_scale)}}

\* the index at parent_scale of the voxel that contains the voxel of index
\* idx at scale
ContainingVoxel(idx, scale, parent_scale) ==
    The({Shr(idx % size, parent_scale - scale)
             + Shr((idx \div size) % size, parent_scale - scale) * sp
             + Shr(idx \div (size * size), parent_scale - scale) * sp * sp :
           size \in {Shr(BlockSize, scale)}, sp \in {Shr(BlockSize, parent_scale)}})

\* the writes give every voxel of the buffer array, and no index outside
\* of it, the data of the voxel of the current scale that contains it
WritesInitialiseBuffer(recommended_scale, last_scale) ==
    \E writes \in {InitBufferWrites(recommended_scale, last_scale)} :
        /\ {w.buffer_idx : w \in writes} = 0..(NumVoxels(recommended_scale) - 1)
        /\ \A w \in writes :
               /\ w.parent_idx = ContainingVoxel(w.buffer_idx, recommended_scale, last_scale)
               /\ ~w.observed

\* the pairs of a buffer scale and a coarser current scale for which they do
InitialisedFromParent ==
    {p \in (0..max_scale) \X (0..max_scale) :
        p[1] < p[2] /\ WritesInitialiseBuffer(p[1], p[2])}

\* the recommended scales of the calls that initialise a finer buffer of
\* the block
FinerBufferScales(b) ==
    {r \in {RecommendedScale(b, lv, computed, mol, fs_integr_scale) :
               lv \in BOOLEAN, mol \in BOOLEAN, computed \in 0..max_scale} :
        b.min_scale # -1 /\ r # b.buffer_scale_ /\ r < LastScale(b)}

\* a buffer initialised at recommended_scale holds in each voxel the data of
\* its parent, and its counts are 0
InitialisedBuffer(b, recommended_scale) ==
    \E b2 \in {InitBufferFromParent(initBuffer(b, recommended_scale),
                                    recommended_scale, LastScale(b))} :
        /\ <<recommended_scale, LastScale(b)>> \in InitialisedFromParent
        /\ b2.buffer_scale_ = recommended_scale
        /\ b2.buffer_data_ \in b2.live
        /\ \A i \in 1..Len(b2.data_) : b2.data_[i] # b2.buffer_data_
        /\ b2.buffer_integr_count_ = 0 /\ b2.buffer_observed_count_ = 0
        /\ b2.fault = b.fault

\* C36: whenever updateBlock / freeBlock initialises a buffer at a scale
\* finer than the current one, every voxel of the buffer holds, before the
\* frame is integrated, the data of the current-scale voxel that contains
\* it with the observed bit cleared, the buffer counts are 0, no voxel is
\* left out and no write is outside of the array
FinerBufferInitialisedFromParent ==
    /\ (alive /\ block.fault \cap Undefined = {}) =>
           \A r \in FinerBufferScales(block) : InitialisedBuffer(block, r)
    /\ (call.did.init_called /\ call.recommended < call.did.last_scale) =>
           <<call.recommended, call.did.last_scale>> \in InitialisedFromParent

\* the same for the buffers one scale below the current scale
OneScaleFinerBufferInitialisedFromParent ==
    /\ (alive /\ block.fault \cap Undefined = {}) =>
           \A r \in FinerBufferScales(block) :
               r = LastScale(block) - 1 => InitialisedBuffer(block, r)
    /\ (call.did.init_called /\ call.recommended = call.did.last_scale - 1) =>
           <<call.recommended, call.did.last_scale>> \in InitialisedFromParent

\* the scale-normalised number of observed voxels of the buffer is at
\* least 95% of that of the current scale
Coverage95(b) ==
    /\ b.buffer_scale_ >= 0
    /\ 100 * b.buffer_observed_count_ * cu(Shl1(b.buffer_scale_))
           >= 95 * b.curr_observed_count_ * cu(Shl1(b.current_scale))

\* buffer_integr_count_ before and after the integration into the buffer
\* that a step makes
CountBeforeBuffered == IF call'.did.init_called THEN 0 ELSE block.buffer_integr_count_
CountAfterBuffered == call'.did.pre_switch.buffer_integr_count_

\* C37: a buffered integration increments buffer_integr_count only when
\* the coverage of the buffer has reached 95%, and leaves it unchanged
\* before that
CountedOnlyWithCoverage ==
    [][(call'.did.called /\ call'.did.buffered /\ call' # call) =>
           (CountAfterBuffered # CountBeforeBuffered
                => Coverage95(call'.did.pre_switch))]_vars

\* what the code does: a buffered integration increments the count by one
\* or leaves it, and it leaves it only before the coverage of 90%
CountedOrBelowCoverage ==
    [][(call'.did.called /\ call'.did.buffered /\ call' # call) =>
           \/ CountAfterBuffered = CountBeforeBuffered + 1
           \/ /\ CountAfterBuffered = CountBeforeBuffered
              /\ ~CoverageReached(call'.did.pre_switch)]_vars

(***************************************************************************)
(* The octree in three dimensions: child coordinates and the gather of     *)
(* the eight neighbours.  An octant is the path of child indices 0..7 from *)
(* the root; the blocks lie GatherDepth below the root.                    *)
(***************************************************************************)
RECURSIVE Paths3(_)
Paths3(d) ==
    IF d = 0 THEN {<<>>}
    ELSE Paths3(d - 1)
            \cup {Append(n, i) : n \in {q \in Paths3(d - 1) : Len(q) = d - 1}, i \in 0..7}
Octants3 == Paths3(GatherDepth)
IsBlock3(n) == Len(n) = GatherDepth
Size3(n) == BlockSize * 2 ^ (GatherDepth - Len(n))
OctreeSize3 == Size3(<<>>)

\* a & b for non-negative integers
RECURSIVE BitAnd(_, _)
BitAnd(a, b) ==
    IF a = 0 \/ b = 0 THEN 0
    ELSE (a % 2) * (b % 2) + 2 * BitAnd(a \div 2, b \div 2)

\* the conversion of a bool to int, and Eigen::Vector3i arithmetic
B2I(p) == IF p THEN 1 ELSE 0
VAdd(u, v) == <<u[1] + v[1], u[2] + v[2], u[3] + v[3]>>
VSub(u, v) == <<u[1] - v[1], u[2] - v[2], u[3] - v[3]>>
VScale(k, v) == <<k * v[1], k * v[2], k * v[3]>>

\* Node::getChildCoord(child_idx) of a node at coord of edge length size
getChildCoord(coord, size, child_idx) ==
    VAdd(coord, VScale(size \div 2, <<B2I(BitAnd(child_idx, 1) # 0),
                                      B2I(BitAnd(child_idx, 2) # 0),
                                      B2I(BitAnd(child_idx, 4) # 0)>>))

\* the coordinates Block::Block(parent_ptr, child_idx, init_data) hands to
\* OctantBase
BlockCoord(parent_coord, child_idx) ==
    VAdd(parent_coord, VScale(BlockSize, <<B2I(BitAnd(1, child_idx) > 0),
                                           B2I(BitAnd(2, child_idx) > 0),
                                           B2I(BitAnd(4, child_idx) > 0)>>))

\* a getChildIdx that reads the x bit for every axis
getChildIdxOfX(coord, size, child_coord) ==
    7 * B2I(BitAnd(child_coord[1] - coord[1], size \div 2) > 0)

\* Node::getChildIdx(child_coord) of a node at coord of edge length size
getChildIdx(coord, size, child_coord) ==
    B2I(BitAnd(child_coord[1] - coord[1], size \div 2) > 0)
        + 2 * B2I(BitAnd(child_coord[2] - coord[2], size \div 2) > 0)
        + 4 * B2I(BitAnd(child_coord[3] - coord[3], size \div 2) > 0)

\* octant_ptr->coord: the root is constructed at the origin, a node by
\* Node::Node(parent_ptr, child_idx, init_data), a block by Block::Block
RECURSIVE Coord3(_)
Coord3(n) ==
    IF n = <<>> THEN <<0, 0, 0>>
    ELSE IF IsBlock3(n) THEN BlockCoord(Coord3(Parent(n)), n[Len(n)])
    ELSE getChildCoord(Coord3(Parent(n)), Size3(Parent(n)), n[Len(n)])

\* a node without children
isLeaf3(m, n) == \A i \in 0..7 : Append(n, i) \notin m.alloc

\* fetcher::leaf(voxel_coord, root): the descent from the root by the
\* child index of the voxel; null when the child is missing from a node
\* that has other children
RECURSIVE leaf3(_, _, _)
leaf3(m, n, voxel_coord) ==
    IF IsBlock3(n) \/ isLeaf3(m, n) THEN n
    ELSE The({IF child \in m.alloc THEN leaf3(m, child, voxel_coord) ELSE NoLeaf :
                 child \in {Append(n, getChildIdx(Coord3(n), Size3(n), voxel_coord))}})

\* block_ptr->current_scale of the blocks of a map
CurrentScale3(m, block_ptr) ==
    CASE m.pattern = "fine" -> 0
      [] m.pattern = "coarse" -> 2
      [] m.pattern = "mixed" -> IF block_ptr[Len(block_ptr)] % 2 = 1 THEN 2 ELSE 0

\* the index BlockMultiRes::data(data, voxel_coord, scale) computes for the
\* block at coord
voxelIdx(coord, voxel_coord, scale) ==
    The({CastInt(off[1], 2 ^ scale)
             + CastInt(off[2], 2 ^ scale) * Shr(BlockSize, scale)
             + CastInt(off[3], 2 ^ scale) * Shr(BlockSize, scale) * Shr(BlockSize, scale) :
           off \in {VSub(voxel_coord, coord)}})

\* block_ptr->data(voxel_coord, scale): init_data when the scale is finer
\* than the finest scale of the data stack, which reaches down to the
\* current scale, and else the voxel of the array of the scale at the index
\* the block computes
BlockRead(m, block_ptr, voxel_coord, scale) ==
    IF CurrentScale3(m, block_ptr) > scale
    THEN [octant |-> block_ptr, scale |-> -2, idx |-> 0]
    ELSE [octant |-> block_ptr, scale |-> scale,
          idx |-> voxelIdx(Coord3(block_ptr), voxel_coord, scale)]

\* node_ptr->data(): the one value of a leaf node
NodeRead(node_ptr) == [octant |-> node_ptr, scale |-> -1, idx |-> 0]

interp_offsets ==
    <<<<0, 0, 0>>, <<1, 0, 0>>, <<0, 1, 0>>, <<1, 1, 0>>,
      <<0, 0, 1>>, <<1, 0, 1>>, <<0, 1, 1>>, <<1, 1, 1>>>>
SampleCoord(base_coord, stride, i) == VAdd(base_coord, VScale(stride, interp_offsets[i + 1]))

\* gather_local, gather_4 and gather_2: the samples of the offsets, all
\* read from the one leaf
gather_n(m, leaf_ptr, base_coord, offsets, scale) ==
    [i \in {offsets[k] : k \in 1..Len(offsets)} |->
        IF IsBlock3(leaf_ptr)
        THEN BlockRead(m, leaf_ptr, SampleCoord(base_coord, 2 ^ scale, i), scale)
        ELSE NodeRead(leaf_ptr)]

\* the offs arrays of the cases of the switch on crossmask
Offs(crossmask) ==
    CASE crossmask = 0 -> <<<<0, 1, 2, 3, 4, 5, 6, 7>>>>
      [] crossmask = 1 -> <<<<0, 1, 2, 3>>, <<4, 5, 6, 7>>>>
      [] crossmask = 2 -> <<<<0, 1, 4, 5>>, <<2, 3, 6, 7>>>>
      [] crossmask = 3 -> <<<<0, 1>>, <<2, 3>>, <<4, 5>>, <<6, 7>>>>
      [] crossmask = 4 -> <<<<0, 2, 4, 6>>, <<1, 3, 5, 7>>>>
      [] crossmask = 5 -> <<<<0, 2>>, <<1, 3>>, <<4, 6>>, <<5, 7>>>>
      [] crossmask = 6 -> <<<<0, 4>>, <<1, 5>>, <<2, 6>>, <<3, 7>>>>
      [] crossmask = 7 -> <<<<0>>, <<1>>, <<2>>, <<3>>, <<4>>, <<5>>, <<6>>, <<7>>>>

\* the mask of the axes along which base_coord is the last sample of a
\* cell of edge length size
Mask(base_coord, size, stride) ==
    4 * B2I(BitAnd(base_coord[1], size - 1) = size - stride)
        + 2 * B2I(BitAnd(base_coord[2], size - 1) = size - stride)
        + B2I(BitAnd(base_coord[3], size - 1) = size - stride)

\* a crossmask taken from the size of the base octant alone
CrossMaskOfOctant(base_coord, base_octant_ptr, stride) ==
    Mask(base_coord, Size3(base_octant_ptr), stride)

\* crossmask of get_neighbours: of the base octant, and of the block size
\* when the base octant is a node and the cube leaves it
CrossMask(base_coord, base_octant_ptr, stride) ==
    IF Mask(base_coord, Size3(base_octant_ptr), stride) # 0 /\ ~IsBlock3(base_octant_ptr)
    THEN Mask(base_coord, BlockSize, stride)
    ELSE Mask(base_coord, Size3(base_octant_ptr), stride)

\* !leaf_ptr || (leaf_ptr->is_block && current_scale > scale)
Unusable3(m, leaf_ptr, scale) ==
    leaf_ptr = NoLeaf \/ (IsBlock3(leaf_ptr) /\ CurrentScale3(m, leaf_ptr) > scale)

\* the union of functions with disjoint domains
RECURSIVE Merge(_)
Merge(fs) == IF fs = <<>> THEN <<>> ELSE Head(fs) @@ Merge(Tail(fs))

\* detail::get_neighbours(octree, base_coord, scale, neighbour_data): the
\* value returned and neighbour_data, a function of the offsets 0..7
get_neighbours_xyz(m, base_coord, scale) ==
    The({IF \/ \E a \in 1..3 : base_coord[a] + stride >= OctreeSize3
            \/ \E a \in 1..3 : base_coord[a] < 0
         THEN [ok |-> FALSE, neighbour_data |-> <<>>]
         ELSE The({IF base_octant_ptr = NoLeaf
                   THEN [ok |-> FALSE, neighbour_data |-> <<>>]
                   ELSE The({The({IF \E k \in 1..Len(offs) :
                                        Unusable3(m, leaves[k], scale)
                                  THEN [ok |-> FALSE, neighbour_data |-> <<>>]
                                  ELSE [ok |-> TRUE,
                                        neighbour_data |->
                                            Merge([k \in 1..Len(offs) |->
                                                      gather_n(m, leaves[k], base_coord,
                                                               offs[k], scale)])] :
                                     leaves \in {[k \in 1..Len(offs) |->
                                                     leaf3(m, <<>>,
                                                           SampleCoord(base_coord, stride,
                                                                       offs[k][1]))]}}) :
                                offs \in {Offs(CrossMask(base_coord, base_octant_ptr,
                                                         stride))}}) :
                      base_octant_ptr \in {leaf3(m, <<>>, base_coord)}}) :
            stride \in {2 ^ scale}})

\* the octrees of the queries: the children of the root, those of Full
\* divided down to the blocks and the others leaf nodes, without the last
\* block of the first child or without the last child of the root
Map3(full, hole, pattern) ==
    [alloc |-> {n \in Octants3 :
                   /\ Len(n) >= 2 => n[1] \in full
                   /\ hole = "block" => ~(IsBlock3(n) /\ n[1] = 0 /\ n[Len(n)] = 7)
                   /\ hole = "node" => ~(Len(n) >= 1 /\ n[1] = 7)},
     pattern |-> pattern]
GatherMaps ==
    {Map3(full, hole, pattern) :
        full \in {{0}, {0, 3, 5, 6}, 0..7},
        hole \in {"none", "block", "node"},
        pattern \in {"fine", "coarse", "mixed"}}

\* the base coordinates of the queries along one axis: multiples of the
\* stride, as interp computes them, about the faces of blocks and nodes
\* and about the faces of the octree
AxisCoords(stride) ==
    {-stride, 0, BlockSize - stride, 2 * BlockSize - stride, 2 * BlockSize,
     3 * BlockSize - stride, OctreeSize3 - 2 * stride, OctreeSize3 - stride}

\* detail::get_neighbours called for the base coordinates and the scale
getNeighbours ==
    /\ gather.fn = "get_neighbours"
    /\ ~gather.called
    /\ \E r \in {get_neighbours_xyz(gather.map, gather.base_coord, gather.scale)} :
           gather' = [gather EXCEPT !.called = TRUE, !.ok = r.ok,
                                    !.neighbour_data = r.neighbour_data]
    /\ UNCHANGED notgathervars

\* Octree::allocate: the child child_idx of the node is constructed, a
\* block below the nodes of twice the block size and a node elsewhere, and
\* the node is asked for the index of the child
constructChild ==
    /\ gather.fn = "getChildIdx"
    /\ ~gather.called
    /\ \E child_coord \in {Coord3(Append(gather.node, gather.child_idx))} :
           gather' = [gather EXCEPT
                         !.called = TRUE,
                         !.child_coord = child_coord,
                         !.child_idx_back = getChildIdx(Coord3(gather.node),
                                                        Size3(gather.node), child_coord)]
    /\ UNCHANGED notgathervars

InitGather ==
    /\ NewBlock
    /\ InitOctree
    /\ InitNode
    /\ voxels = NewVoxels([v \in Vox |-> [observed |-> FALSE, weight |-> 0]], 0)
    /\ par = NoPar
    /\ visit = NoVisit
    /\ iter = NoIter
    /\ cell = NoCell
    /\ \/ \E m \in GatherMaps, scale \in 0..max_scale :
             \E x, y, z \in AxisCoords(2 ^ scale) :
                 gather = [NoGather EXCEPT !.fn = "get_neighbours", !.map = m,
                                           !.base_coord = <<x, y, z>>, !.scale = scale]
       \/ \E m \in GatherMaps :
             \E node \in {n \in m.alloc : ~IsBlock3(n)}, child_idx \in 0..7 :
                 gather = [NoGather EXCEPT !.fn = "getChildIdx", !.map = m,
                                           !.node = node, !.child_idx = child_idx]

NextGather == getNeighbours \/ constructChild

SpecGather == InitGather /\ [][NextGather]_vars

\* the leaf that contains a voxel: the allocated block or node without
\* children whose cube the voxel lies in
Coords3 == [o \in Octants3 |-> Coord3(o)]
ContainingLeaves(m, voxel_coord) ==
    {o \in m.alloc :
        /\ \A a \in 1..3 : /\ Coords3[o][a] <= voxel_coord[a]
                           /\ voxel_coord[a] < Coords3[o][a] + Size3(o)
        /\ IsBlock3(o) \/ isLeaf3(m, o)}

\* the data a leaf stores for a voxel at a scale: the voxel of the block
\* at that scale that contains it, or the one value of the node
StoredAt(o, voxel_coord, scale) ==
    IF IsBlock3(o)
    THEN [octant |-> o, scale |-> scale,
          idx |-> ((voxel_coord[1] - Coord3(o)[1]) \div 2 ^ scale)
                    + ((voxel_coord[2] - Coord3(o)[2]) \div 2 ^ scale) * Shr(BlockSize, scale)
                    + ((voxel_coord[3] - Coord3(o)[3]) \div 2 ^ scale)
                          * Shr(BlockSize, scale) * Shr(BlockSize, scale)]
    ELSE [octant |-> o, scale |-> -1, idx |-> 0]

\* C39: when the gather succeeds, each of the eight samples is the data
\* stored at the scale by the leaf that contains the sample, whatever the
\* faces of blocks and nodes the cube straddles, and the gather fails when
\* one of these leaves is missing or is a block coarser than the scale
GatherReadsContainingLeaves ==
    (gather.fn = "get_neighbours" /\ gather.called) =>
        /\ gather.ok => DOMAIN gather.neighbour_data = 0..7
        /\ \A i \in 0..7 :
               \E c \in {SampleCoord(gather.base_coord, 2 ^ gather.scale, i)} :
                   \E leaves \in {ContainingLeaves(gather.map, c)} :
                       /\ gather.ok =>
                              \E o \in leaves :
                                  gather.neighbour_data[i] = StoredAt(o, c, gather.scale)
                       /\ (\/ leaves = {}
                           \/ \E o \in leaves :
                                  /\ IsBlock3(o)
                                  /\ CurrentScale3(gather.map, o) > gather.scale)
                              => ~gather.ok

\* the cube of a gather that succeeded has its base in a leaf node and
\* straddles faces along every axis: its samples are of two leaf nodes and
\* of four blocks
GatheredAcrossThreeFaces ==
    /\ gather.fn = "get_neighbours" /\ gather.called /\ gather.ok
    /\ gather.scale = 1
    /\ CrossMask(gather.base_coord, gather.neighbour_data[0].octant, 2) = 7
    /\ ~IsBlock3(gather.neighbour_data[0].octant)
    /\ ~IsBlock3(gather.neighbour_data[7].octant)
    /\ Cardinality({gather.neighbour_data[i].octant : i \in 0..7}) = 6
    /\ Cardinality({i \in 0..7 : IsBlock3(gather.neighbour_data[i].octant)}) = 4

\* C40: the corner of the child i of a node, a node or a block, is the
\* corner of the node plus (i & 1, (i >> 1) & 1, (i >> 2) & 1) times half
\* the edge length of the node, and getChildIdx gives i for it
ChildCoordRoundTrip ==
    (gather.fn = "getChildIdx" /\ gather.called) =>
        /\ gather.child_coord =
               VAdd(Coord3(gather.node),
                    VScale(Size3(gather.node) \div 2,
                           <<BitAnd(gather.child_idx, 1),
                             BitAnd(Shr(gather.child_idx, 1), 1),
                             BitAnd(Shr(gather.child_idx, 2), 1)>>))
        /\ gather.child_idx_back = gather.child_idx

\* the child 6 of a node that is not at the origin has been constructed as
\* a block
BlockChildConstructed ==
    /\ gather.fn = "getChildIdx" /\ gather.called
    /\ gather.child_idx = 6
    /\ gather.node # <<>>
    /\ Coord3(gather.node) # <<0, 0, 0>>
    /\ IsBlock3(Append(gather.node, gather.child_idx))

\* the child 5 of the root has been constructed as a node
NodeChildConstructed ==
    /\ gather.fn = "getChildIdx" /\ gather.called
    /\ gather.child_idx = 5
    /\ gather.node = <<>>
    /\ ~IsBlock3(Append(gather.node, gather.child_idx))

TypeOKTree ==
    /\ octree_[Root].allocated
    /\ \A o \in Allocated(octree_) \ {Root} : octree_[Parent(o)].allocated
    /\ timestamp_ \in 0..MaxFrames
    /\ frame.number \in 0..MaxFrames

TypeOKBlock ==
    /\ block.min_scale \in -1..max_scale
    /\ block.current_scale \in 0..max_scale
    /\ alive \in BOOLEAN

====
